---- MODULE Spec2Model ----
(***************************************************************************)
(* Model of backend/scripts/optimizer/generate_schedule.py: build_model    *)
(* turns a roster request into a CP-SAT constraint model, reconciles it    *)
(* with pinned (existing) assignments, solves it and formats the result.   *)
(*                                                                         *)
(* Members and days are 0-based indexes as in the source (u, d).  A date   *)
(* is represented by its day index; the days of a request are consecutive  *)
(* calendar dates in ascending order.  An optional value (None in the      *)
(* source) is the empty set, a present value v is {v}.  The key            *)
(* max_nights_per_member is read with a default, so a key that is present  *)
(* with the value null differs from an absent key: the request field       *)
(* max_nights_per_member_null is TRUE for it.  coverage.day_desired is the *)
(* request field day_desired.  A member's forced_off is the sequence of    *)
(* day indexes in the order the source adds them to the member's set of    *)
(* forced days off (weekly pattern and holidays by ascending day, then the *)
(* custom dates in payload order).  The shift_code of an existing          *)
(* assignment is a text: the sequence of its Unicode code points.          *)
(***************************************************************************)
EXTENDS Integers, Sequences, FiniteSets, TLC

VARIABLES data, pc, cfg, pinned_assignments, fixed_requirements, conflicts,
          per_day_requirements, desired_day_per_day, model, status, sol,
          result

vars == <<data, pc, cfg, pinned_assignments, fixed_requirements, conflicts,
          per_day_requirements, desired_day_per_day, model, status, sol,
          result>>

----------------------------------------------------------------------------
(* Program constants *)

SHIFT_CODES == {"EARLY", "DAY", "LATE", "NIGHT", "NIGHT_AFTER", "OFF"}
WORK_SHIFT_CODES == {"EARLY", "DAY", "LATE", "NIGHT"}
output_shift_codes == WORK_SHIFT_CODES \cup {"NIGHT_AFTER", "OFF"}

default_max_nights == 7
part_time_default_min_off == 10
coverage_penalty == 100000
off_requirement_penalty == 1000
day_target_penalty == 5000
work_balance_weight == 10
off_balance_weight == 5

(* Bounds of the explored requests *)
MaxMembers == 2
MaxDays == 3
MaxCells == 4
MaxCov == 1
MaxPins == 2
MaxDeviations == 1
LongHorizon == 10

NONE == "NONE"

----------------------------------------------------------------------------
(* Generic helpers *)

Max2(a, b) == IF a >= b THEN a ELSE b
Min2(a, b) == IF a <= b THEN a ELSE b
Abs(a) == IF a < 0 THEN 0 - a ELSE a

(* Python's floor division for a positive divisor *)
FloorDiv(a, b) == IF a >= 0 THEN a \div b ELSE 0 - ((0 - a + b - 1) \div b)

Opt(o, dflt) == IF o = {} THEN dflt ELSE CHOOSE v \in o : TRUE

RECURSIVE Flatten(_)
Flatten(ss) == IF ss = <<>> THEN <<>> ELSE Head(ss) \o Flatten(Tail(ss))

RECURSIVE SumTo(_, _)
(* sum of f[0] .. f[n-1] *)
SumTo(f, n) == IF n <= 0 THEN 0 ELSE f[n - 1] + SumTo(f, n - 1)

(* sorted({a, b}) on shift-code strings: Python compares them as text *)
CodeRank(c) ==
    CASE c = "DAY" -> 1
      [] c = "EARLY" -> 2
      [] c = "LATE" -> 3
      [] c = "NIGHT" -> 4
      [] c = "NIGHT_AFTER" -> 5
      [] c = "OFF" -> 6
      [] OTHER -> 7

SortedPair(a, b) ==
    IF a = b THEN <<a>>
    ELSE IF CodeRank(a) < CodeRank(b) THEN <<a, b>> ELSE <<b, a>>

----------------------------------------------------------------------------
(* The request *)

num_members == Cardinality(DOMAIN data.members)
num_days == data.num_days
MemberIdx == 0 .. (num_members - 1)
DayIdx == 0 .. (num_days - 1)

(* One conflict record; fields a kind does not carry keep their defaults. *)
(*   date      : date / start_date                                         *)
(*   date2     : next_date / previous_date / rest_date / end_date          *)
(*   shift_code: shift_code / locked_shift                                 *)
(*   n1, n2    : nights_locked, max_allowed / limit / shortfall, required  *)
Conflict(type, member_id, date, date2, shift_code, codes, n1, n2) ==
    [type |-> type, member_id |-> member_id, date |-> date, date2 |-> date2,
     shift_code |-> shift_code, codes |-> codes, n1 |-> n1, n2 |-> n2]

----------------------------------------------------------------------------
(* Input normalisation, lines 183-307 *)

clamp_min_off_days(raw_value, fallback, ndays) ==
    IF raw_value = {} THEN fallback
    ELSE Max2(0, Min2(Opt(raw_value, 0), ndays))

base_min_off == clamp_min_off_days(data.min_off_days, 0, num_days)

min_off_full_time ==
    clamp_min_off_days(data.min_off_days_full_time, base_min_off, num_days)

part_time_fallback ==
    IF data.min_off_days # {} THEN base_min_off ELSE part_time_default_min_off

min_off_part_time ==
    clamp_min_off_days(data.min_off_days_part_time, part_time_fallback, num_days)

min_off_contract ==
    clamp_min_off_days(data.min_off_days_contract, min_off_part_time, num_days)

min_off_for(employment_type) ==
    CASE employment_type = "full_time" -> min_off_full_time
      [] employment_type = "part_time" -> min_off_part_time
      [] employment_type = "contract" -> min_off_contract
      [] OTHER -> base_min_off

get_required(code) == data.coverage[code]

desired_day_headcount_raw ==
    IF data.desired_day_headcount = {} THEN data.day_desired
    ELSE data.desired_day_headcount

desired_day_headcount ==
    Max2(get_required("DAY"),
         Min2(Opt(desired_day_headcount_raw, get_required("DAY")), num_members))

max_consecutive_workdays ==
    IF data.max_consecutive_workdays # {}
       /\ Opt(data.max_consecutive_workdays, 0) > 0
    THEN {Min2(Opt(data.max_consecutive_workdays, 0), num_days)}
    ELSE {}

is_carry_over(d) == \E g \in data.generation_end_date : d > g

(* line 236: int(None) raises TypeError and build_model ends there,       *)
(* without a result                                                        *)
RaiseTypeError ==
    /\ pc = "start"
    /\ data.max_nights_per_member_null
    /\ pc' = "raised"
    /\ UNCHANGED <<data, cfg, pinned_assignments, fixed_requirements, conflicts,
                   per_day_requirements, desired_day_per_day, model, status,
                   sol, result>>

Normalize ==
    /\ pc = "start"
    /\ ~data.max_nights_per_member_null
    /\ num_members > 0 /\ num_days > 0
    /\ cfg' = [max_nights |-> Opt(data.max_nights_per_member, default_max_nights),
               min_off_by_type |->
                   [t \in {"full_time", "part_time", "contract"} |-> min_off_for(t)],
               default_min_off |-> base_min_off,
               desired_day_headcount |-> desired_day_headcount,
               max_consecutive_workdays |-> max_consecutive_workdays,
               enforce_night_rest |-> data.enforce_night_after_rest,
               forbid_late_to_early |-> data.forbid_late_to_early,
               limit_fulltime_repeat |-> data.limit_fulltime_repeat,
               balance_workload |-> data.balance_workload]
    /\ pc' = "normalized"
    /\ UNCHANGED <<data, pinned_assignments, fixed_requirements, conflicts,
                   per_day_requirements, desired_day_per_day, model, status,
                   sol, result>>

----------------------------------------------------------------------------
(* Existing assignments, lines 327-372 *)

Cells == MemberIdx \X DayIdx

EmptyPinned == [c \in Cells |-> NONE]
EmptyFixed == [k \in DayIdx \X WORK_SHIFT_CODES |-> 0]

allowed_codes_of(u) == data.members[u].allowed_shift_codes

(* A text is the sequence of its Unicode code points.                      *)

(* the code point of a character of an identifier written in ASCII *)
RECURSIVE IndexIn(_, _)
IndexIn(ch, s) ==
    IF s = "" THEN -1
    ELSE IF Head(s) = ch THEN 0
    ELSE LET i == IndexIn(ch, Tail(s)) IN IF i < 0 THEN -1 ELSE i + 1

ord(ch) ==
    LET digit == IndexIn(ch, "0123456789")
        upper == IndexIn(ch, "ABCDEFGHIJKLMNOPQRSTUVWXYZ")
        lower == IndexIn(ch, "abcdefghijklmnopqrstuvwxyz")
    IN  CASE digit >= 0 -> 48 + digit
          [] upper >= 0 -> 65 + upper
          [] lower >= 0 -> 97 + lower
          [] ch = "_" -> 95

(* the text of a name written in ASCII *)
RECURSIVE Text(_)
Text(name) ==
    IF name = "" THEN <<>> ELSE <<ord(Head(name))>> \o Text(Tail(name))

(* str.upper() of CPython 3.11 (Unicode 14.0.0), character by character.   *)
(* UpperRuns: <<first, last, step, delta>>, every step-th code point from  *)
(* first to last has the single upper-case code point delta further on.    *)
UpperRuns ==
    {
     <<97, 122, 1, -32>>, <<181, 181, 1, 743>>, <<224, 246, 1, -32>>,
     <<248, 254, 1, -32>>, <<255, 255, 1, 121>>, <<257, 303, 2, -1>>,
     <<305, 305, 1, -232>>, <<307, 311, 2, -1>>, <<314, 328, 2, -1>>,
     <<331, 375, 2, -1>>, <<378, 382, 2, -1>>, <<383, 383, 1, -300>>,
     <<384, 384, 1, 195>>, <<387, 389, 2, -1>>, <<392, 392, 1, -1>>,
     <<396, 396, 1, -1>>, <<402, 402, 1, -1>>, <<405, 405, 1, 97>>,
     <<409, 409, 1, -1>>, <<410, 410, 1, 163>>, <<414, 414, 1, 130>>,
     <<417, 421, 2, -1>>, <<424, 424, 1, -1>>, <<429, 429, 1, -1>>,
     <<432, 432, 1, -1>>, <<436, 438, 2, -1>>, <<441, 441, 1, -1>>,
     <<445, 445, 1, -1>>, <<447, 447, 1, 56>>, <<453, 453, 1, -1>>,
     <<454, 454, 1, -2>>, <<456, 456, 1, -1>>, <<457, 457, 1, -2>>,
     <<459, 459, 1, -1>>, <<460, 460, 1, -2>>, <<462, 476, 2, -1>>,
     <<477, 477, 1, -79>>, <<479, 495, 2, -1>>, <<498, 498, 1, -1>>,
     <<499, 499, 1, -2>>, <<501, 501, 1, -1>>, <<505, 543, 2, -1>>,
     <<547, 563, 2, -1>>, <<572, 572, 1, -1>>, <<575, 576, 1, 10815>>,
     <<578, 578, 1, -1>>, <<583, 591, 2, -1>>, <<592, 592, 1, 10783>>,
     <<593, 593, 1, 10780>>, <<594, 594, 1, 10782>>, <<595, 595, 1, -210>>,
     <<596, 596, 1, -206>>, <<598, 599, 1, -205>>, <<601, 601, 1, -202>>,
     <<603, 603, 1, -203>>, <<604, 604, 1, 42319>>, <<608, 608, 1, -205>>,
     <<609, 609, 1, 42315>>, <<611, 611, 1, -207>>, <<613, 613, 1, 42280>>,
     <<614, 614, 1, 42308>>, <<616, 616, 1, -209>>, <<617, 617, 1, -211>>,
     <<618, 618, 1, 42308>>, <<619, 619, 1, 10743>>,
     <<620, 620, 1, 42305>>, <<623, 623, 1, -211>>, <<625, 625, 1, 10749>>,
     <<626, 626, 1, -213>>, <<629, 629, 1, -214>>, <<637, 637, 1, 10727>>,
     <<640, 640, 1, -218>>, <<642, 642, 1, 42307>>, <<643, 643, 1, -218>>,
     <<647, 647, 1, 42282>>, <<648, 648, 1, -218>>, <<649, 649, 1, -69>>,
     <<650, 651, 1, -217>>, <<652, 652, 1, -71>>, <<658, 658, 1, -219>>,
     <<669, 669, 1, 42261>>, <<670, 670, 1, 42258>>, <<837, 837, 1, 84>>,
     <<881, 883, 2, -1>>, <<887, 887, 1, -1>>, <<891, 893, 1, 130>>,
     <<940, 940, 1, -38>>, <<941, 943, 1, -37>>, <<945, 961, 1, -32>>,
     <<962, 962, 1, -31>>, <<963, 971, 1, -32>>, <<972, 972, 1, -64>>,
     <<973, 974, 1, -63>>, <<976, 976, 1, -62>>, <<977, 977, 1, -57>>,
     <<981, 981, 1, -47>>, <<982, 982, 1, -54>>, <<983, 983, 1, -8>>,
     <<985, 1007, 2, -1>>, <<1008, 1008, 1, -86>>, <<1009, 1009, 1, -80>>,
     <<1010, 1010, 1, 7>>, <<1011, 1011, 1, -116>>, <<1013, 1013, 1, -96>>,
     <<1016, 1016, 1, -1>>, <<1019, 1019, 1, -1>>, <<1072, 1103, 1, -32>>,
     <<1104, 1119, 1, -80>>, <<1121, 1153, 2, -1>>, <<1163, 1215, 2, -1>>,
     <<1218, 1230, 2, -1>>, <<1231, 1231, 1, -15>>, <<1233, 1327, 2, -1>>,
     <<1377, 1414, 1, -48>>, <<4304, 4346, 1, 3008>>,
     <<4349, 4351, 1, 3008>>, <<5112, 5117, 1, -8>>,
     <<7296, 7296, 1, -6254>>, <<7297, 7297, 1, -6253>>,
     <<7298, 7298, 1, -6244>>, <<7299, 7300, 1, -6242>>,
     <<7301, 7301, 1, -6243>>, <<7302, 7302, 1, -6236>>,
     <<7303, 7303, 1, -6181>>, <<7304, 7304, 1, 35266>>,
     <<7545, 7545, 1, 35332>>, <<7549, 7549, 1, 3814>>,
     <<7566, 7566, 1, 35384>>, <<7681, 7829, 2, -1>>,
     <<7835, 7835, 1, -59>>, <<7841, 7935, 2, -1>>, <<7936, 7943, 1, 8>>,
     <<7952, 7957, 1, 8>>, <<7968, 7975, 1, 8>>, <<7984, 7991, 1, 8>>,
     <<8000, 8005, 1, 8>>, <<8017, 8023, 2, 8>>, <<8032, 8039, 1, 8>>,
     <<8048, 8049, 1, 74>>, <<8050, 8053, 1, 86>>, <<8054, 8055, 1, 100>>,
     <<8056, 8057, 1, 128>>, <<8058, 8059, 1, 112>>,
     <<8060, 8061, 1, 126>>, <<8112, 8113, 1, 8>>,
     <<8126, 8126, 1, -7205>>, <<8144, 8145, 1, 8>>, <<8160, 8161, 1, 8>>,
     <<8165, 8165, 1, 7>>, <<8526, 8526, 1, -28>>, <<8560, 8575, 1, -16>>,
     <<8580, 8580, 1, -1>>, <<9424, 9449, 1, -26>>,
     <<11312, 11359, 1, -48>>, <<11361, 11361, 1, -1>>,
     <<11365, 11365, 1, -10795>>, <<11366, 11366, 1, -10792>>,
     <<11368, 11372, 2, -1>>, <<11379, 11379, 1, -1>>,
     <<11382, 11382, 1, -1>>, <<11393, 11491, 2, -1>>,
     <<11500, 11502, 2, -1>>, <<11507, 11507, 1, -1>>,
     <<11520, 11557, 1, -7264>>, <<11559, 11559, 1, -7264>>,
     <<11565, 11565, 1, -7264>>, <<42561, 42605, 2, -1>>,
     <<42625, 42651, 2, -1>>, <<42787, 42799, 2, -1>>,
     <<42803, 42863, 2, -1>>, <<42874, 42876, 2, -1>>,
     <<42879, 42887, 2, -1>>, <<42892, 42892, 1, -1>>,
     <<42897, 42899, 2, -1>>, <<42900, 42900, 1, 48>>,
     <<42903, 42921, 2, -1>>, <<42933, 42947, 2, -1>>,
     <<42952, 42954, 2, -1>>, <<42961, 42961, 1, -1>>,
     <<42967, 42969, 2, -1>>, <<42998, 42998, 1, -1>>,
     <<43859, 43859, 1, -928>>, <<43888, 43967, 1, -38864>>,
     <<65345, 65370, 1, -32>>, <<66600, 66639, 1, -40>>,
     <<66776, 66811, 1, -40>>, <<66967, 66977, 1, -39>>,
     <<66979, 66993, 1, -39>>, <<66995, 67001, 1, -39>>,
     <<67003, 67004, 1, -39>>, <<68800, 68850, 1, -64>>,
     <<71872, 71903, 1, -32>>, <<93792, 93823, 1, -32>>,
     <<125218, 125251, 1, -34>>
    }

(* UpperExpansions: <<code point, upper-case text>>, the code points whose *)
(* upper case is more than one character long.                             *)
UpperExpansions ==
    {
     <<223, <<83, 83>>>>, <<329, <<700, 78>>>>, <<496, <<74, 780>>>>,
     <<912, <<921, 776, 769>>>>, <<944, <<933, 776, 769>>>>,
     <<1415, <<1333, 1362>>>>, <<7830, <<72, 817>>>>,
     <<7831, <<84, 776>>>>, <<7832, <<87, 778>>>>, <<7833, <<89, 778>>>>,
     <<7834, <<65, 702>>>>, <<8016, <<933, 787>>>>,
     <<8018, <<933, 787, 768>>>>, <<8020, <<933, 787, 769>>>>,
     <<8022, <<933, 787, 834>>>>, <<8064, <<7944, 921>>>>,
     <<8065, <<7945, 921>>>>, <<8066, <<7946, 921>>>>,
     <<8067, <<7947, 921>>>>, <<8068, <<7948, 921>>>>,
     <<8069, <<7949, 921>>>>, <<8070, <<7950, 921>>>>,
     <<8071, <<7951, 921>>>>, <<8072, <<7944, 921>>>>,
     <<8073, <<7945, 921>>>>, <<8074, <<7946, 921>>>>,
     <<8075, <<7947, 921>>>>, <<8076, <<7948, 921>>>>,
     <<8077, <<7949, 921>>>>, <<8078, <<7950, 921>>>>,
     <<8079, <<7951, 921>>>>, <<8080, <<7976, 921>>>>,
     <<8081, <<7977, 921>>>>, <<8082, <<7978, 921>>>>,
     <<8083, <<7979, 921>>>>, <<8084, <<7980, 921>>>>,
     <<8085, <<7981, 921>>>>, <<8086, <<7982, 921>>>>,
     <<8087, <<7983, 921>>>>, <<8088, <<7976, 921>>>>,
     <<8089, <<7977, 921>>>>, <<8090, <<7978, 921>>>>,
     <<8091, <<7979, 921>>>>, <<8092, <<7980, 921>>>>,
     <<8093, <<7981, 921>>>>, <<8094, <<7982, 921>>>>,
     <<8095, <<7983, 921>>>>, <<8096, <<8040, 921>>>>,
     <<8097, <<8041, 921>>>>, <<8098, <<8042, 921>>>>,
     <<8099, <<8043, 921>>>>, <<8100, <<8044, 921>>>>,
     <<8101, <<8045, 921>>>>, <<8102, <<8046, 921>>>>,
     <<8103, <<8047, 921>>>>, <<8104, <<8040, 921>>>>,
     <<8105, <<8041, 921>>>>, <<8106, <<8042, 921>>>>,
     <<8107, <<8043, 921>>>>, <<8108, <<8044, 921>>>>,
     <<8109, <<8045, 921>>>>, <<8110, <<8046, 921>>>>,
     <<8111, <<8047, 921>>>>, <<8114, <<8122, 921>>>>,
     <<8115, <<913, 921>>>>, <<8116, <<902, 921>>>>,
     <<8118, <<913, 834>>>>, <<8119, <<913, 834, 921>>>>,
     <<8124, <<913, 921>>>>, <<8130, <<8138, 921>>>>,
     <<8131, <<919, 921>>>>, <<8132, <<905, 921>>>>,
     <<8134, <<919, 834>>>>, <<8135, <<919, 834, 921>>>>,
     <<8140, <<919, 921>>>>, <<8146, <<921, 776, 768>>>>,
     <<8147, <<921, 776, 769>>>>, <<8150, <<921, 834>>>>,
     <<8151, <<921, 776, 834>>>>, <<8162, <<933, 776, 768>>>>,
     <<8163, <<933, 776, 769>>>>, <<8164, <<929, 787>>>>,
     <<8166, <<933, 834>>>>, <<8167, <<933, 776, 834>>>>,
     <<8178, <<8186, 921>>>>, <<8179, <<937, 921>>>>,
     <<8180, <<911, 921>>>>, <<8182, <<937, 834>>>>,
     <<8183, <<937, 834, 921>>>>, <<8188, <<937, 921>>>>,
     <<64256, <<70, 70>>>>, <<64257, <<70, 73>>>>, <<64258, <<70, 76>>>>,
     <<64259, <<70, 70, 73>>>>, <<64260, <<70, 70, 76>>>>,
     <<64261, <<83, 84>>>>, <<64262, <<83, 84>>>>,
     <<64275, <<1348, 1350>>>>, <<64276, <<1348, 1333>>>>,
     <<64277, <<1348, 1339>>>>, <<64278, <<1358, 1350>>>>,
     <<64279, <<1348, 1341>>>>
    }

UpperChar(c) ==
    LET long == {e \in UpperExpansions : e[1] = c}
        run == {r \in UpperRuns :
                   r[1] <= c /\ c <= r[2] /\ (c - r[1]) % r[3] = 0}
    IN  IF long # {} THEN (CHOOSE e \in long : TRUE)[2]
        ELSE IF run # {} THEN <<c + (CHOOSE r \in run : TRUE)[4]>>
        ELSE <<c>>

(* str(code).upper(), line 338 *)
RECURSIVE Upper(_)
Upper(code) ==
    IF code = <<>> THEN <<>> ELSE UpperChar(Head(code)) \o Upper(Tail(code))

(* The name of the shift code that a text spells, letter for letter; a     *)
(* text that spells none has the empty name, which is no shift code: the   *)
(* test "code not in SHIFT_CODES" of line 339 reads the text through it.   *)
ShiftCodeTexts == [c \in SHIFT_CODES |-> Text(c)]

ShiftCodeName(text) ==
    LET named == {c \in SHIFT_CODES : ShiftCodeTexts[c] = text}
    IN  IF named = {} THEN "" ELSE CHOOSE c \in named : TRUE

(* fault: a later, different code replaces the pinned one *)
ExistingStep_Overwrite(st, assignment) ==
    LET u == assignment.user_id
        d == assignment.date
        code == ShiftCodeName(Upper(assignment.shift_code))
        key == <<u, d>>
    IN  IF u \notin MemberIdx \/ d \notin DayIdx THEN st
        ELSE IF code \notin SHIFT_CODES THEN st
        ELSE [pinned |-> [st.pinned EXCEPT ![key] = code],
              fixed |-> IF code \in WORK_SHIFT_CODES
                        THEN [st.fixed EXCEPT ![<<d, code>>] = @ + 1]
                        ELSE st.fixed,
              conflicts |-> st.conflicts]

(* One iteration of the loop over existing_assignments; st is the triple   *)
(* of pinned_assignments, fixed_requirements and conflicts so far.         *)
ExistingStep(st, assignment) ==
    LET u == assignment.user_id
        d == assignment.date
        code == ShiftCodeName(Upper(assignment.shift_code))
        key == <<u, d>>
        allow_conf ==
            IF allowed_codes_of(u) # {} /\ code \notin Opt(allowed_codes_of(u), {})
            THEN <<Conflict("allowed_shift_conflict", u, d, -1, code, <<>>, -1, -1)>>
            ELSE <<>>
        pinned_code == st.pinned[key]
    IN  IF u \notin MemberIdx \/ d \notin DayIdx THEN st
        ELSE IF code \notin SHIFT_CODES THEN st
        ELSE IF pinned_code # NONE
        THEN [st EXCEPT !.conflicts =
                @ \o allow_conf \o
                (IF pinned_code # code
                 THEN <<Conflict("existing_assignment_conflict", u, d, -1, NONE,
                                 SortedPair(pinned_code, code), -1, -1)>>
                 ELSE <<>>)]
        ELSE [pinned |-> [st.pinned EXCEPT ![key] = code],
              fixed |-> IF code \in WORK_SHIFT_CODES
                        THEN [st.fixed EXCEPT ![<<d, code>>] = @ + 1]
                        ELSE st.fixed,
              conflicts |-> st.conflicts \o allow_conf]

RECURSIVE ExistingFold(_, _)
ExistingFold(st, rest) ==
    IF rest = <<>> THEN st
    ELSE ExistingFold(ExistingStep(st, Head(rest)), Tail(rest))

ReadExisting ==
    /\ pc = "normalized"
    /\ LET st == ExistingFold([pinned |-> EmptyPinned, fixed |-> EmptyFixed,
                               conflicts |-> <<>>], data.existing_assignments)
       IN  /\ pinned_assignments' = st.pinned
           /\ fixed_requirements' = st.fixed
           /\ conflicts' = st.conflicts
    /\ pc' = "pinned"
    /\ UNCHANGED <<data, cfg, per_day_requirements, desired_day_per_day, model,
                   status, sol, result>>

----------------------------------------------------------------------------
(* Allowed codes and forced days off, lines 374-405 *)

allowed_shift_sets(u) ==
    IF allowed_codes_of(u) = {} THEN SHIFT_CODES
    ELSE (Opt(allowed_codes_of(u), {}) \cap SHIFT_CODES) \cup {"OFF", "NIGHT_AFTER"}

(* forced_indices is a Python set of day indexes, and the loop of line 497 *)
(* visits it in the set's iteration order: the order of the slots of its   *)
(* hash table.  A table is a function from its slots to the key stored     *)
(* there, -1 for an unused slot; the hash of a day index is the index.     *)
PySet_MINSIZE == 8
LINEAR_PROBES == 9
PERTURB_SHIFT == 5

EmptyTable(size) == [i \in 0 .. (size - 1) |-> -1]

RECURSIVE set_slot(_, _, _, _)
(* the slot where key is stored or is to be stored: from slot i, the run   *)
(* of linear probes when it fits in the table, then the perturbed jump     *)
set_slot(table, key, i, perturb) ==
    LET mask == Cardinality(DOMAIN table) - 1
        probes == IF i + LINEAR_PROBES <= mask THEN LINEAR_PROBES ELSE 0
        hits == {j \in i .. (i + probes) : table[j] = -1 \/ table[j] = key}
    IN  IF hits # {} THEN CHOOSE j \in hits : \A o \in hits : j <= o
        ELSE set_slot(table, key,
                      (i * 5 + 1 + (perturb \div (2 ^ PERTURB_SHIFT))) % (mask + 1),
                      perturb \div (2 ^ PERTURB_SHIFT))

set_put(table, key) ==
    [table EXCEPT ![set_slot(table, key, key % Cardinality(DOMAIN table), key)] = key]

set_fill(table) == Cardinality({i \in DOMAIN table : table[i] # -1})

RECURSIVE set_newsize(_, _)
set_newsize(size, minused) ==
    IF size <= minused THEN set_newsize(2 * size, minused) ELSE size

RECURSIVE set_reinsert(_, _, _)
(* the keys of the old table from slot i on, in slot order, put into new *)
set_reinsert(new, old, i) ==
    IF i >= Cardinality(DOMAIN old) THEN new
    ELSE set_reinsert(IF old[i] = -1 THEN new ELSE set_put(new, old[i]), old, i + 1)

(* set.add: a new key is stored, and the table is rebuilt four times the   *)
(* size of its content once it is three fifths full                        *)
set_add(table, key) ==
    LET put == set_put(table, key)
        mask == Cardinality(DOMAIN table) - 1
    IN  IF put = table THEN table
        ELSE IF set_fill(put) * 5 < mask * 3 THEN put
        ELSE set_reinsert(EmptyTable(set_newsize(PySet_MINSIZE, set_fill(put) * 4)),
                          put, 0)

RECURSIVE set_add_all(_, _)
set_add_all(table, keys) ==
    IF keys = <<>> THEN table
    ELSE set_add_all(set_add(table, Head(keys)), Tail(keys))

IsKey(v) == v # -1

(* the keys in iteration order *)
set_iteration(table) ==
    SelectSeq([i \in 1 .. Cardinality(DOMAIN table) |-> table[i - 1]], IsKey)

InHorizon(d) == d \in DayIdx

(* The day indexes the member's preferences force off (weekly pattern,     *)
(* holiday flag and custom dates, resolved to day indexes; a custom date   *)
(* outside the horizon is not added), lines 385-405.                       *)
forced_indices(u) ==
    set_add_all(EmptyTable(PySet_MINSIZE), SelectSeq(data.members[u].forced_off, InHorizon))

forced_off_days_by_member(u) ==
    {forced_indices(u)[i] : i \in DOMAIN forced_indices(u)} \ {-1}

----------------------------------------------------------------------------
(* Per-day requirements and the DAY target, lines 413-452 *)

(* fault: the smaller, not the larger, of base target and pinned count *)
base_requirement_Smaller(d, s) ==
    IF is_carry_over(d)
    THEN Max2(fixed_requirements[<<d, s>>], 0)
    ELSE Min2(get_required(s), fixed_requirements[<<d, s>>])

base_requirement(d, s) ==
    IF is_carry_over(d)
    THEN Max2(fixed_requirements[<<d, s>>], 0)
    ELSE Max2(get_required(s), fixed_requirements[<<d, s>>])

required_other(d) ==
    base_requirement(d, "EARLY") + base_requirement(d, "LATE")
        + base_requirement(d, "NIGHT")

remaining_capacity(d) ==
    IF num_members - required_other(d) < base_requirement(d, "DAY")
    THEN base_requirement(d, "DAY")
    ELSE Min2(num_members - required_other(d), num_members)

fixed_day_assignments(d) ==
    Cardinality({u \in MemberIdx : pinned_assignments[<<u, d>>] = "DAY"})

flexible_day_capacity(d) ==
    Cardinality({u \in MemberIdx : /\ pinned_assignments[<<u, d>>] = NONE
                                   /\ "DAY" \in allowed_shift_sets(u)})

max_day_capacity(d) ==
    Max2(base_requirement(d, "DAY"),
         fixed_day_assignments(d) + flexible_day_capacity(d))

day_target(d) ==
    IF is_carry_over(d) THEN base_requirement(d, "DAY")
    ELSE Min2(Min2(Max2(cfg.desired_day_headcount, base_requirement(d, "DAY")),
                   remaining_capacity(d)),
              max_day_capacity(d))

ComputeRequirements ==
    /\ pc = "pinned"
    /\ per_day_requirements' =
           [d \in DayIdx |->
               [s \in WORK_SHIFT_CODES |->
                   IF s = "DAY" THEN day_target(d) ELSE base_requirement(d, s)]]
    /\ desired_day_per_day' = [d \in DayIdx |-> day_target(d)]
    /\ pc' = "required"
    /\ UNCHANGED <<data, cfg, pinned_assignments, fixed_requirements, conflicts,
                   model, status, sol, result>>

----------------------------------------------------------------------------
(* The constraint model handed to the solver.                              *)
(*                                                                         *)
(* x is the cube of indicators: x[<<u, d>>] is the set of shift codes s    *)
(* with x[(u, d, s)] = 1.  A constraint instance is a record; the kinds:   *)
(*   exactly_one  sum_s x[u,d,s] == 1                                      *)
(*   at_most_one  sum_s x[u,d,s] <= 1                                      *)
(*   coverage     sum_u x[u,d,s] + shortage == k, shortage in 0..k         *)
(*                (k = 0: sum_u x[u,d,s] == 0)                             *)
(*   fix          x[u,d,s] == k                                            *)
(*   work_flag    a Boolean work_flag == sum of the work codes of (u,d)    *)
(*   window       sum of work flags of days d..d2 <= k                     *)
(*   implies      x[u,d,s] <= x[u,d2,s2]                                   *)
(*   not_both     x[u,d,s] + x[u,d2,s2] <= 1                               *)
(*   repeat       x[u,d,s] + x[u,d+1,s] + x[u,d+2,s] <= 2                  *)
(*   night_quota  sum_d x[u,d,NIGHT] <= k                                  *)
(*   off_min      off_count + off_slack >= k, off_slack in 0..num_days     *)
(*   balance      work_count, work_diff (k = target_work) and off_diff     *)
(*                (k2 = target_off) within their declared domains          *)
(***************************************************************************)

Con(kind, u, d, s, d2, s2, k, k2) ==
    [kind |-> kind, u |-> u, d |-> d, s |-> s, d2 |-> d2, s2 |-> s2,
     k |-> k, k2 |-> k2]

Fix(u, d, s, v) == Con("fix", u, d, s, -1, NONE, v, 0)
Implies(u, d, s, d2, s2) == Con("implies", u, d, s, d2, s2, 0, 0)

WorkSeq == <<"EARLY", "DAY", "LATE", "NIGHT">>

pin(u, d) == pinned_assignments[<<u, d>>]

(* fault: the carry-over relaxation applied to every day *)
SingleAssignmentCons_AtMostOne ==
    {Con("at_most_one", c[1], c[2], NONE, -1, NONE, 0, 0) : c \in Cells}

(* lines 320-325 *)
SingleAssignmentCons ==
    {Con(IF is_carry_over(c[2]) THEN "at_most_one" ELSE "exactly_one",
         c[1], c[2], NONE, -1, NONE, 0, 0) : c \in Cells}

(* lines 454-469 *)
CoverageCons ==
    {Con("coverage", -1, k[1], k[2], -1, NONE, per_day_requirements[k[1]][k[2]], 0) :
        k \in DayIdx \X WORK_SHIFT_CODES}

(* fault: only work codes of existing assignments are pinned *)
PinnedCons_WorkOnly ==
    {Fix(c[1], c[2], pinned_assignments[c], 1) :
        c \in {c \in Cells : pinned_assignments[c] \in WORK_SHIFT_CODES}}

(* lines 472-473 *)
PinnedCons ==
    {Fix(c[1], c[2], pinned_assignments[c], 1) :
        c \in {c \in Cells : pinned_assignments[c] # NONE}}

(* lines 476-494 *)
disallowed_codes(u) == {code \in WORK_SHIFT_CODES : code \notin allowed_shift_sets(u)}

AllowedCons(u) ==
    {Fix(u, k[1], k[2], 0) :
        k \in {k \in DayIdx \X disallowed_codes(u) : pin(u, k[1]) # k[2]}}

AllowedConflicts(u) ==
    Flatten([i \in 1 .. num_days |->
        IF pin(u, i - 1) \in disallowed_codes(u)
        THEN <<Conflict("allowed_shift_conflict", u, i - 1, -1, pin(u, i - 1),
                        <<>>, -1, -1)>>
        ELSE <<>>])

(* lines 496-515 *)
ForcedOffBlocked(u, d) == pin(u, d) # NONE /\ pin(u, d) # "OFF"

ForcedOffCons(u) ==
    {Fix(u, k[1], k[2], IF k[2] = "OFF" THEN 1 ELSE 0) :
        k \in {k \in forced_off_days_by_member(u) \X SHIFT_CODES :
                  ~ForcedOffBlocked(u, k[1])}}

ForcedOffConflicts(u) ==
    LET days == set_iteration(forced_indices(u))
    IN  Flatten([i \in 1 .. Len(days) |->
            IF ForcedOffBlocked(u, days[i])
            THEN <<Conflict("fixed_day_off_conflict", u, days[i], -1, pin(u, days[i]),
                            <<>>, -1, -1)>>
            ELSE <<>>])

(* lines 517-550 *)
RECURSIVE pinned_run(_, _)
(* value of pinned_run after the loop body has seen day d *)
pinned_run(u, d) ==
    IF d < 0 THEN 0
    ELSE IF pin(u, d) \in WORK_SHIFT_CODES THEN pinned_run(u, d - 1) + 1
    ELSE 0

WindowCons(u) ==
    IF cfg.max_consecutive_workdays = {} THEN {}
    ELSE LET cap == Opt(cfg.max_consecutive_workdays, 0)
             window == cap + 1
         IN  {Con("work_flag", u, d, NONE, -1, NONE, 0, 0) : d \in DayIdx}
             \cup
             (IF window <= num_days
              THEN {Con("window", u, start, NONE, start + window - 1, NONE, cap, 0) :
                        start \in 0 .. (num_days - cap - 1)}
              ELSE {})

(* fault: the run is reported from the day before its first day *)
ConsecutiveConflicts_StartsEarly(u) ==
    IF cfg.max_consecutive_workdays = {} THEN <<>>
    ELSE LET cap == Opt(cfg.max_consecutive_workdays, 0)
             hits == {d \in DayIdx : pinned_run(u, d) > cap}
         IN  IF hits = {} THEN <<>>
             ELSE LET d == CHOOSE h \in hits : \A o \in hits : h <= o
                  IN  <<Conflict("max_consecutive_workdays_conflict", u,
                                 d - pinned_run(u, d), d, NONE, <<>>, cap, -1)>>

ConsecutiveConflicts(u) ==
    IF cfg.max_consecutive_workdays = {} THEN <<>>
    ELSE LET cap == Opt(cfg.max_consecutive_workdays, 0)
             hits == {d \in DayIdx : pinned_run(u, d) > cap}
         IN  IF hits = {} THEN <<>>
             ELSE LET d == CHOOSE h \in hits : \A o \in hits : h <= o
                  IN  <<Conflict("max_consecutive_workdays_conflict", u,
                                 d - pinned_run(u, d) + 1, d, NONE, <<>>, cap, -1)>>

(* lines 552-569 *)
NightAfterBlocked(u, d) ==
    pin(u, d) = "NIGHT_AFTER" /\ pin(u, d - 1) # NONE /\ pin(u, d - 1) # "NIGHT"

(* fault: the predecessor rule starts one day late *)
NightAfterCons_FromThirdDay(u) ==
    {Implies(u, d, "NIGHT_AFTER", d - 1, "NIGHT") :
        d \in {d \in 2 .. (num_days - 1) : ~NightAfterBlocked(u, d)}}

NightAfterCons(u) ==
    {Implies(u, d, "NIGHT_AFTER", d - 1, "NIGHT") :
        d \in {d \in 1 .. (num_days - 1) : ~NightAfterBlocked(u, d)}}

NightAfterConflicts(u) ==
    Flatten([d \in 1 .. (num_days - 1) |->
        IF NightAfterBlocked(u, d)
        THEN <<Conflict("night_after_predecessor_conflict", u, d, d - 1,
                        pin(u, d - 1), <<>>, -1, -1)>>
        ELSE <<>>])

(* lines 571-604 *)
FollowUpBlockedByNext(u, d) ==
    pin(u, d) = "NIGHT" /\ pin(u, d + 1) # NONE /\ pin(u, d + 1) # "NIGHT_AFTER"

FollowUpBlockedByCurrent(u, d) ==
    pin(u, d + 1) = "NIGHT_AFTER" /\ pin(u, d) # NONE /\ pin(u, d) # "NIGHT"

FollowUpCons(u) ==
    IF ~cfg.enforce_night_rest THEN {}
    ELSE {Implies(u, d, "NIGHT", d + 1, "NIGHT_AFTER") :
             d \in {d \in 0 .. (num_days - 2) :
                       /\ ~FollowUpBlockedByNext(u, d)
                       /\ ~FollowUpBlockedByCurrent(u, d)}}

FollowUpConflicts(u) ==
    IF ~cfg.enforce_night_rest THEN <<>>
    ELSE Flatten([i \in 1 .. (num_days - 1) |->
            LET d == i - 1
            IN  IF FollowUpBlockedByNext(u, d)
                THEN <<Conflict("night_follow_up_conflict", u, d, d + 1,
                                pin(u, d + 1), <<>>, -1, -1)>>
                ELSE IF FollowUpBlockedByCurrent(u, d)
                THEN <<Conflict("night_follow_up_conflict", u, d, d + 1,
                                pin(u, d), <<>>, -1, -1)>>
                ELSE <<>>])

(* lines 606-622 *)
RestBlocked(u, d) ==
    pin(u, d) = "NIGHT" /\ pin(u, d + 2) # NONE /\ pin(u, d + 2) # "OFF"

(* fault: the rest rule stops one day early *)
RestCons_StopsEarly(u) ==
    IF ~cfg.enforce_night_rest THEN {}
    ELSE {Implies(u, d, "NIGHT", d + 2, "OFF") :
             d \in {d \in 0 .. (num_days - 4) : ~RestBlocked(u, d)}}

RestCons(u) ==
    IF ~cfg.enforce_night_rest THEN {}
    ELSE {Implies(u, d, "NIGHT", d + 2, "OFF") :
             d \in {d \in 0 .. (num_days - 3) : ~RestBlocked(u, d)}}

RestConflicts(u) ==
    IF ~cfg.enforce_night_rest THEN <<>>
    ELSE Flatten([i \in 1 .. (num_days - 2) |->
            LET d == i - 1
            IN  IF RestBlocked(u, d)
                THEN <<Conflict("night_rest_conflict", u, d, d + 2,
                                pin(u, d + 2), <<>>, -1, -1)>>
                ELSE <<>>])

(* fault: NIGHT_AFTER left open to members without night eligibility *)
EligibilityCons_NightOnly(u) ==
    IF data.members[u].can_night_shift THEN {}
    ELSE {Fix(u, d, "NIGHT", 0) : d \in {d \in DayIdx : pin(u, d) # "NIGHT"}}

(* lines 624-637 *)
EligibilityCons(u) ==
    IF data.members[u].can_night_shift THEN {}
    ELSE {Fix(u, k[1], k[2], 0) :
             k \in {k \in DayIdx \X {"NIGHT", "NIGHT_AFTER"} : pin(u, k[1]) # "NIGHT"}}

EligibilityConflicts(u) ==
    IF data.members[u].can_night_shift THEN <<>>
    ELSE Flatten([i \in 1 .. num_days |->
            IF pin(u, i - 1) = "NIGHT"
            THEN <<Conflict("night_eligibility_conflict", u, i - 1, -1, NONE,
                            <<>>, -1, -1)>>
            ELSE <<>>])

(* lines 639-655 *)
LateEarlyBlocked(u, d) == pin(u, d) = "LATE" /\ pin(u, d + 1) = "EARLY"

LateEarlyCons(u) ==
    IF ~cfg.forbid_late_to_early THEN {}
    ELSE {Con("not_both", u, d, "LATE", d + 1, "EARLY", 1, 0) :
             d \in {d \in 0 .. (num_days - 2) : ~LateEarlyBlocked(u, d)}}

LateEarlyConflicts(u) ==
    IF ~cfg.forbid_late_to_early THEN <<>>
    ELSE Flatten([i \in 1 .. (num_days - 1) |->
            IF LateEarlyBlocked(u, i - 1)
            THEN <<Conflict("late_to_early_conflict", u, i - 1, i, NONE,
                            <<>>, -1, -1)>>
            ELSE <<>>])

(* lines 657-676 *)
RepeatApplies(u) ==
    cfg.limit_fulltime_repeat /\ data.members[u].employment_type = "full_time"

RepeatBlocked(u, d, s) ==
    pin(u, d) = s /\ pin(u, d + 1) = s /\ pin(u, d + 2) = s

RepeatCons(u) ==
    IF ~RepeatApplies(u) THEN {}
    ELSE {Con("repeat", u, k[1], k[2], k[1] + 2, k[2], 2, 0) :
             k \in {k \in (0 .. (num_days - 3)) \X WORK_SHIFT_CODES :
                       ~RepeatBlocked(u, k[1], k[2])}}

RepeatConflicts(u) ==
    IF ~RepeatApplies(u) THEN <<>>
    ELSE Flatten([j \in 1 .. 4 |->
            Flatten([i \in 1 .. (num_days - 2) |->
                IF RepeatBlocked(u, i - 1, WorkSeq[j])
                THEN <<Conflict("repeat_limit_conflict", u, i - 1, -1, WorkSeq[j],
                                <<>>, -1, -1)>>
                ELSE <<>>])])

(* lines 678-691 *)
pinned_night_count(u) == Cardinality({d \in DayIdx : pin(u, d) = "NIGHT"})

QuotaBlocked(u) == pinned_night_count(u) > cfg.max_nights

(* fault: the quota allows one NIGHT too many *)
QuotaCons_OneMore(u) ==
    IF QuotaBlocked(u) THEN {}
    ELSE {Con("night_quota", u, -1, "NIGHT", -1, NONE, cfg.max_nights + 1, 0)}

QuotaCons(u) ==
    IF QuotaBlocked(u) THEN {}
    ELSE {Con("night_quota", u, -1, "NIGHT", -1, NONE, cfg.max_nights, 0)}

QuotaConflicts(u) ==
    IF QuotaBlocked(u)
    THEN <<Conflict("night_quota_conflict", u, -1, -1, NONE, <<>>,
                    pinned_night_count(u), cfg.max_nights)>>
    ELSE <<>>

(* lines 693-740 *)
total_assignments ==
    SumTo([d \in DayIdx |->
              per_day_requirements[d]["EARLY"] + per_day_requirements[d]["LATE"]
                  + per_day_requirements[d]["NIGHT"] + desired_day_per_day[d]],
          num_days)

target_work == FloorDiv(total_assignments, num_members)
total_off_available == num_days * num_members - total_assignments
target_off == FloorDiv(total_off_available, num_members)

member_off_requirements(u) ==
    IF data.members[u].employment_type \in DOMAIN cfg.min_off_by_type
    THEN cfg.min_off_by_type[data.members[u].employment_type]
    ELSE cfg.default_min_off

OffCons(u) ==
    IF member_off_requirements(u) > 0
    THEN {Con("off_min", u, -1, "OFF", -1, NONE, member_off_requirements(u), 0)}
    ELSE {}

BalanceCons(u) == {Con("balance", u, -1, NONE, -1, NONE, target_work, target_off)}

(* The rule blocks of one member, in source order, lines 475-691 *)
MemberCons(u) ==
    AllowedCons(u) \cup ForcedOffCons(u) \cup WindowCons(u) \cup NightAfterCons(u)
        \cup FollowUpCons(u) \cup RestCons(u) \cup EligibilityCons(u)
        \cup LateEarlyCons(u) \cup RepeatCons(u) \cup QuotaCons(u)

MemberConflicts(u) ==
    AllowedConflicts(u) \o ForcedOffConflicts(u) \o ConsecutiveConflicts(u)
        \o NightAfterConflicts(u) \o FollowUpConflicts(u) \o RestConflicts(u)
        \o EligibilityConflicts(u) \o LateEarlyConflicts(u) \o RepeatConflicts(u)
        \o QuotaConflicts(u)

EmitConstraints ==
    /\ pc = "required"
    /\ model' = SingleAssignmentCons \cup CoverageCons \cup PinnedCons
                  \cup UNION {MemberCons(u) : u \in MemberIdx}
                  \cup UNION {OffCons(u) \cup BalanceCons(u) : u \in MemberIdx}
    /\ conflicts' = conflicts \o
                      Flatten([i \in 1 .. num_members |-> MemberConflicts(i - 1)])
    /\ pc' = "built"
    /\ UNCHANGED <<data, cfg, pinned_assignments, fixed_requirements,
                   per_day_requirements, desired_day_per_day, status, sol, result>>

----------------------------------------------------------------------------
(* The external solver: any value of the variables that satisfies every    *)
(* emitted constraint, lines 756-759.  A solution is the cube x and the    *)
(* value of each member's off_slack; shortage, work_count and the diffs    *)
(* are determined by x.                                                   *)

Count(x, d, s) == Cardinality({u \in MemberIdx : s \in x[<<u, d>>]})
off_count(x, u) == Cardinality({d \in DayIdx : "OFF" \in x[<<u, d>>]})
night_count(x, u) == Cardinality({d \in DayIdx : "NIGHT" \in x[<<u, d>>]})
work_count(x, u) == num_days - off_count(x, u)
work_flag(x, u, d) == x[<<u, d>>] \cap WORK_SHIFT_CODES # {}

CellKinds == {"exactly_one", "at_most_one", "fix", "work_flag"}

HoldsCell(c, v) ==
    CASE c.kind = "exactly_one" -> Cardinality(v) = 1
      [] c.kind = "at_most_one" -> Cardinality(v) <= 1
      [] c.kind = "fix" -> (c.s \in v) <=> (c.k = 1)
      [] c.kind = "work_flag" -> Cardinality(v \cap WORK_SHIFT_CODES) <= 1
      [] OTHER -> TRUE

Holds(c, x, off_slack) ==
    CASE c.kind \in CellKinds -> HoldsCell(c, x[<<c.u, c.d>>])
      [] c.kind = "coverage" -> Count(x, c.d, c.s) <= c.k
      [] c.kind = "window" ->
            Cardinality({d \in c.d .. c.d2 : work_flag(x, c.u, d)}) <= c.k
      [] c.kind = "implies" ->
            (c.s \in x[<<c.u, c.d>>]) => (c.s2 \in x[<<c.u, c.d2>>])
      [] c.kind = "not_both" ->
            ~((c.s \in x[<<c.u, c.d>>]) /\ (c.s2 \in x[<<c.u, c.d2>>]))
      [] c.kind = "repeat" ->
            ~(\A d \in c.d .. c.d2 : c.s \in x[<<c.u, d>>])
      [] c.kind = "night_quota" -> night_count(x, c.u) <= c.k
      [] c.kind = "off_min" -> off_count(x, c.u) + off_slack[c.u] >= c.k
      [] c.kind = "balance" ->
            /\ work_count(x, c.u) \in 0 .. num_days
            /\ (work_count(x, c.u) - c.k) \in (0 - num_days) .. num_days
            /\ (off_count(x, c.u) - c.k2) \in (0 - num_days) .. num_days
      [] OTHER -> FALSE

(* The cells a constraint instance reads *)
Scope(c) ==
    CASE c.kind \in CellKinds -> {<<c.u, c.d>>}
      [] c.kind = "coverage" -> MemberIdx \X {c.d}
      [] c.kind \in {"window", "repeat"} -> {c.u} \X (c.d .. c.d2)
      [] c.kind \in {"implies", "not_both"} -> {<<c.u, c.d>>, <<c.u, c.d2>>}
      [] OTHER -> {c.u} \X DayIdx

(* Values of one cell that its own constraints allow *)
CellDomain(m, u, d) ==
    LET local == {c \in m : c.kind \in CellKinds /\ c.u = u /\ c.d = d}
    IN  {v \in SUBSET SHIFT_CODES : \A c \in local : HoldsCell(c, v)}

(* Every value of the cells that satisfies the constraints (other than     *)
(* off_min) reading only those cells; built one cell at a time.            *)
RECURSIVE Cube(_, _)
Cube(m, cells) ==
    IF cells = {} THEN {[c \in {} |-> {}]}
    ELSE LET c == CHOOSE c \in cells : TRUE
             dom == CellDomain(m, c[1], c[2])
             rest == Cube(m, cells \ {c})
             due == {k \in m : /\ k.kind \notin CellKinds
                               /\ k.kind # "off_min"
                               /\ c \in Scope(k)
                               /\ Scope(k) \subseteq cells}
         IN  {f \in {(c :> v) @@ g : v \in dom, g \in rest} :
                 \A k \in due : Holds(k, f, <<>>)}

SlackChoices(m, x) ==
    {sl \in [MemberIdx -> 0 .. num_days] :
        \A u \in MemberIdx :
            IF \E c \in m : c.kind = "off_min" /\ c.u = u
            THEN \A c \in m : (c.kind = "off_min" /\ c.u = u) => Holds(c, x, sl)
            ELSE sl[u] = 0}

Solutions(m) ==
    UNION {{[x |-> x, off_slack |-> sl] : sl \in SlackChoices(m, x)} :
              x \in Cube(m, Cells)}

(* lines 742-754 *)
shortage(x, d, s) == per_day_requirements[d][s] - Count(x, d, s)

shortage_keys == {k \in DayIdx \X WORK_SHIFT_CODES : per_day_requirements[k[1]][k[2]] > 0}

day_shortfall(x, d) ==
    IF per_day_requirements[d]["DAY"] > 0 THEN shortage(x, d, "DAY") ELSE 0

RECURSIVE SumShortage(_, _)
SumShortage(x, keys) ==
    IF keys = {} THEN 0
    ELSE LET k == CHOOSE k \in keys : TRUE
         IN  shortage(x, k[1], k[2]) + SumShortage(x, keys \ {k})

Objective(s) ==
    coverage_penalty * SumShortage(s.x, shortage_keys)
      + off_requirement_penalty * SumTo(s.off_slack, num_members)
      + day_target_penalty * SumTo([d \in DayIdx |-> day_shortfall(s.x, d)], num_days)
      + (IF cfg.balance_workload
         THEN work_balance_weight
                  * SumTo([u \in MemberIdx |-> Abs(work_count(s.x, u) - target_work)],
                          num_members)
              + off_balance_weight
                  * SumTo([u \in MemberIdx |-> Abs(off_count(s.x, u) - target_off)],
                          num_members)
         ELSE 0)

OptimalSolutions(m) ==
    LET sols == Solutions(m)
        vals == {Objective(s) : s \in sols}
    IN  IF sols = {} THEN {}
        ELSE LET best == CHOOSE v \in vals : \A w \in vals : v <= w
             IN  {s \in sols : Objective(s) = best}

----------------------------------------------------------------------------
(* Output, lines 761-897 *)

night_users_by_day(x, d) == {u \in MemberIdx : "NIGHT" \in x[<<u, d>>]}

(* fault: carry-over days are emitted unpruned *)
assigned_users_Unpruned(x, d, s) == {u \in MemberIdx : s \in x[<<u, d>>]}

(* lines 793-820 *)
assigned_users(x, d, s) ==
    LET solved == {u \in MemberIdx : s \in x[<<u, d>>]}
    IN  IF is_carry_over(d)
        THEN IF s = "NIGHT_AFTER"
             THEN {u \in solved : d > 0 /\ u \in night_users_by_day(x, d - 1)}
             ELSE IF s = "OFF"
             THEN {u \in solved : d > 1 /\ u \in night_users_by_day(x, d - 2)}
             ELSE {}
        ELSE solved

unique_shift_users(x, s) == UNION {assigned_users(x, d, s) : d \in DayIdx}

shortages(x) ==
    {[date |-> k[1], shift_code |-> k[2], missing |-> shortage(x, k[1], k[2])] :
        k \in {k \in shortage_keys : shortage(x, k[1], k[2]) > 0}}

day_capacity_shortfalls(x) ==
    {[date |-> d, shift_code |-> "DAY", shortfall |-> day_shortfall(x, d),
      unused_capacity |-> day_shortfall(x, d), desired |-> desired_day_per_day[d]] :
        d \in {d \in DayIdx : day_shortfall(x, d) > 0}}

(* fault: a shortfall of a single day is not reported *)
OffShortfallConflicts_AboveOne(s) ==
    Flatten([i \in 1 .. num_members |->
        IF member_off_requirements(i - 1) > 0 /\ s.off_slack[i - 1] > 1
        THEN <<Conflict("off_requirement_shortfall", i - 1, -1, -1, NONE, <<>>,
                        s.off_slack[i - 1], member_off_requirements(i - 1))>>
        ELSE <<>>])

(* lines 859-872 *)
OffShortfallConflicts(s) ==
    Flatten([i \in 1 .. num_members |->
        IF member_off_requirements(i - 1) > 0 /\ s.off_slack[i - 1] > 0
        THEN <<Conflict("off_requirement_shortfall", i - 1, -1, -1, NONE, <<>>,
                        s.off_slack[i - 1], member_off_requirements(i - 1))>>
        ELSE <<>>])

SolvedResult(label, s, all_conflicts) ==
    [assignments |->
         [d \in DayIdx |-> [c \in output_shift_codes |-> assigned_users(s.x, d, c)]],
     summary |->
         [status |-> label,
          work_days |-> [u \in MemberIdx |-> work_count(s.x, u)],
          off_days |-> [u \in MemberIdx |-> off_count(s.x, u)],
          nights |-> [u \in MemberIdx |-> night_count(s.x, u)],
          shift_breakdown |->
              [c \in WORK_SHIFT_CODES |-> Cardinality(unique_shift_users(s.x, c))],
          shortages |-> shortages(s.x),
          day_capacity_shortfalls |-> day_capacity_shortfalls(s.x),
          constraint_conflicts |-> all_conflicts]]

UnsolvedResult(label) ==
    [assignments |-> <<>>,
     summary |->
         [status |-> label,
          work_days |-> <<>>,
          off_days |-> <<>>,
          nights |-> <<>>,
          shift_breakdown |-> [c \in WORK_SHIFT_CODES |-> 0],
          shortages |-> {},
          day_capacity_shortfalls |-> {},
          constraint_conflicts |-> conflicts]]

Finish(label, s) ==
    /\ status' = label
    /\ sol' = s
    /\ conflicts' = conflicts \o OffShortfallConflicts(s)
    /\ result' = SolvedResult(label, s, conflicts \o OffShortfallConflicts(s))
    /\ pc' = "done"
    /\ UNCHANGED <<data, cfg, pinned_assignments, fixed_requirements,
                   per_day_requirements, desired_day_per_day, model>>

Abort(label) ==
    /\ status' = label
    /\ result' = UnsolvedResult(label)
    /\ pc' = "done"
    /\ UNCHANGED <<data, cfg, pinned_assignments, fixed_requirements, conflicts,
                   per_day_requirements, desired_day_per_day, model, sol>>

(* cp_model.OPTIMAL: a solution of least objective value *)
SolveOptimal ==
    /\ pc = "built"
    /\ \E s \in OptimalSolutions(model) : Finish("optimal", s)

(* cp_model.FEASIBLE: the time limit ended the search on some solution *)
SolveFeasible ==
    /\ pc = "built"
    /\ \E s \in Solutions(model) : Finish("feasible", s)

(* cp_model.INFEASIBLE: the constraints have no solution *)
SolveInfeasible ==
    /\ pc = "built"
    /\ Solutions(model) = {}
    /\ Abort("infeasible")

(* cp_model.MODEL_INVALID: the solver rejects the model it was handed *)
SolveInvalid ==
    /\ pc = "built"
    /\ Abort("invalid")

(* cp_model.UNKNOWN: the time limit ended the search before any answer *)
SolveUnknown ==
    /\ pc = "built"
    /\ Abort("unknown")

----------------------------------------------------------------------------
(* The requests explored *)

(* a member given by its id alone, lines 184-192 *)
DefaultMember ==
    [employment_type |-> "member", can_night_shift |-> TRUE,
     allowed_shift_codes |-> {}, forced_off |-> <<>>]

FullTimeMember == [DefaultMember EXCEPT !.employment_type = "full_time"]

(* n members given by their id alone, D days, every constraint left out *)
Request(n, D, cov) ==
    [members |-> [u \in 0 .. (n - 1) |-> DefaultMember],
     num_days |-> D,
     coverage |-> cov,
     max_nights_per_member |-> {},
     max_nights_per_member_null |-> FALSE,
     min_off_days |-> {},
     min_off_days_full_time |-> {},
     min_off_days_part_time |-> {},
     min_off_days_contract |-> {},
     generation_end_date |-> {},
     desired_day_headcount |-> {},
     day_desired |-> {},
     max_consecutive_workdays |-> {},
     enforce_night_after_rest |-> TRUE,
     forbid_late_to_early |-> TRUE,
     limit_fulltime_repeat |-> TRUE,
     balance_workload |-> TRUE,
     existing_assignments |-> <<>>]

(* the same with every member full-time *)
FullTimeRequest(n, D, cov) ==
    [Request(n, D, cov) EXCEPT !.members = [u \in 0 .. (n - 1) |-> FullTimeMember]]

Shapes == {sh \in (1 .. MaxMembers) \X (1 .. MaxDays) : sh[1] * sh[2] <= MaxCells}
Coverages == [WORK_SHIFT_CODES -> 0 .. MaxCov]
Cov(e, dy, l, n) == [s \in WORK_SHIFT_CODES |->
    CASE s = "EARLY" -> e [] s = "DAY" -> dy [] s = "LATE" -> l [] s = "NIGHT" -> n]
GenEnds(D) == {{}} \cup {{g} : g \in 0 .. (D - 2)}

(* an existing assignment *)
Entry(u, d, text) == [user_id |-> u, date |-> d, shift_code |-> text]

(* an existing assignment, its shift code spelt in ASCII *)
Pin(u, d, code) == Entry(u, d, Text(code))

(* "night" spelt with a dotless i, "off" spelt with the ligature ff *)
DotlessNight == <<110, 305, 103, 104, 116>>
LigatureOff == <<111, 64256>>

(* Lists of at most MaxPins existing assignments, in date order *)
RECURSIVE PinLists(_, _)
PinLists(entries, len) ==
    IF len = 0 THEN {<<>>}
    ELSE LET shorter == PinLists(entries, len - 1)
         IN  shorter \cup
             {Append(l, e) : l \in {l \in shorter : Len(l) = len - 1}, e \in entries}

DateOrdered(l) == \A i \in 1 .. (Len(l) - 1) : l[i].date <= l[i + 1].date

(* no existing assignments: coverage, horizon and cutoff *)
CoverageRequests ==
    UNION {{[FullTimeRequest(sh[1], sh[2], cov) EXCEPT !.generation_end_date = g] :
               cov \in Coverages, g \in GenEnds(sh[2])} : sh \in Shapes}

(* no existing assignments: minimum days off per employment category *)
MinOffRequests ==
    UNION {{[FullTimeRequest(sh[1], sh[2], cov) EXCEPT
                !.min_off_days = g, !.min_off_days_full_time = ft,
                !.min_off_days_part_time = pt, !.min_off_days_contract = ct,
                !.members[0].employment_type = et] :
               cov \in {Cov(0, 0, 0, 0), Cov(0, 1, 0, 0)},
               g \in {{}, {-1}, {1}, {MaxDays + 1}},
               ft \in {{}, {2}}, pt \in {{}, {1}}, ct \in {{}, {0}},
               et \in {"full_time", "part_time", "contract", "member"}} :
           sh \in Shapes}

(* no existing assignments: desired day headcount, allow-lists, days off *)
DayTargetRequests ==
    UNION {{[FullTimeRequest(sh[1], sh[2], Cov(e, dy, 0, n)) EXCEPT
                !.desired_day_headcount = want[1],
                !.day_desired = want[2],
                !.balance_workload = bal,
                !.members[0].allowed_shift_codes = al,
                !.members[0].forced_off = fo] :
               e \in 0 .. MaxCov, dy \in 0 .. MaxCov, n \in 0 .. MaxCov,
               want \in {<<{0}, {}>>, <<{1}, {}>>, <<{MaxMembers}, {}>>,
                         <<{MaxMembers + 1}, {}>>, <<{}, {MaxMembers}>>,
                         <<{1}, {MaxMembers}>>},
               bal \in BOOLEAN,
               al \in {{}, {{"EARLY"}}}, fo \in {<<>>, <<0>>}} :
           sh \in Shapes}

(* Rule options of the first member's request; Deviations counts the       *)
(* options that differ from the defaults.                                  *)
Profiles ==
    [can_night : BOOLEAN, enforce : BOOLEAN, cap : {{}, {1}},
     max_nights : {{}, {0}, {1}}, forced : {<<>>, <<1>>},
     allowed : {{}, {{"DAY"}}}, gen_end : {{}, {0}, {1}}]

Deviations(p) ==
    (IF p.can_night THEN 0 ELSE 1) + (IF p.enforce THEN 0 ELSE 1)
      + (IF p.cap = {} THEN 0 ELSE 1) + (IF p.max_nights = {} THEN 0 ELSE 1)
      + (IF p.forced = <<>> THEN 0 ELSE 1) + (IF p.allowed = {} THEN 0 ELSE 1)
      + (IF p.gen_end = {} THEN 0 ELSE 1)

WithProfile(req, p) ==
    [req EXCEPT !.members[0].can_night_shift = p.can_night,
                !.enforce_night_after_rest = p.enforce,
                !.max_consecutive_workdays = p.cap,
                !.max_nights_per_member = p.max_nights,
                !.members[0].forced_off = p.forced,
                !.members[0].allowed_shift_codes = p.allowed,
                !.generation_end_date = p.gen_end]

(* one member, existing assignments against each rule option *)
PinRequests ==
    {WithProfile([FullTimeRequest(1, MaxDays, cov) EXCEPT !.existing_assignments = l], p) :
        cov \in {Cov(0, 0, 0, 1), Cov(0, 1, 0, 1)},
        l \in {l \in PinLists({Pin(0, d, c) : d \in 0 .. (MaxDays - 1),
                                 c \in {"DAY", "NIGHT", "NIGHT_AFTER", "OFF"}},
                              MaxPins) : DateOrdered(l)},
        p \in {p \in Profiles : Deviations(p) <= MaxDeviations}}

(* one member, LATE followed by EARLY *)
LateEarlyRequests ==
    {[FullTimeRequest(1, MaxDays, Cov(1, 0, 1, 0)) EXCEPT
         !.existing_assignments = l, !.forbid_late_to_early = fl] :
        l \in {l \in PinLists({Pin(0, d, c) : d \in 0 .. (MaxDays - 1),
                                 c \in {"LATE", "EARLY"}}, MaxPins) : DateOrdered(l)},
        fl \in BOOLEAN}

(* one member, one existing assignment on each day: runs of work days *)
RunRequests ==
    {[FullTimeRequest(1, MaxDays, Cov(0, 1, 1, 0)) EXCEPT
         !.existing_assignments = [i \in 1 .. MaxDays |-> Pin(0, i - 1, codes[i])],
         !.max_consecutive_workdays = cap,
         !.limit_fulltime_repeat = lim,
         !.members[0].employment_type = et] :
        codes \in [1 .. MaxDays -> {"DAY", "LATE", "OFF"}],
        cap \in {{}, {0}, {1}, {2}},
        lim \in BOOLEAN,
        et \in {"full_time", "part_time"}}

(* several members, existing assignments in any order, some of them naming *)
(* an unknown member, day or shift code, some spelling the code in lower   *)
(* or mixed case or with letters outside ASCII                             *)
TeamRequests ==
    {[FullTimeRequest(MaxMembers, MaxCells \div MaxMembers, Cov(0, 1, 0, 1)) EXCEPT
         !.existing_assignments = l] :
        l \in PinLists({Pin(u, d, c) : u \in 0 .. (MaxMembers - 1),
                          d \in 0 .. ((MaxCells \div MaxMembers) - 1),
                          c \in {"DAY", "NIGHT"}}
                       \cup {Pin(MaxMembers, 0, "DAY"), Pin(0, MaxDays, "DAY"),
                             Pin(0, 0, "HOLIDAY"), Pin(0, 0, "holiday"),
                             Pin(0, 0, "night"), Pin(0, 0, "DaY"),
                             Pin(0, 0, "oFF"),
                             Entry(0, 0, DotlessNight),
                             Entry(0, 0, LigatureOff)},
                       MaxPins)}

(* members given by their id alone, and max_nights_per_member given as null *)
BareRequests ==
    UNION {{[Request(sh[1], sh[2], Cov(0, 1, 0, 0)) EXCEPT
                !.min_off_days_full_time = ft,
                !.max_nights_per_member_null = null] :
               ft \in {{}, {1}}, null \in BOOLEAN} : sh \in Shapes}

(* one member on a horizon longer than the smallest hash table, every day  *)
(* pinned: two forced days off whose indexes meet in one slot, added in    *)
(* either order, both pinned to DAY                                        *)
LongHorizonRequests ==
    {[FullTimeRequest(1, LongHorizon, Cov(0, 1, 0, 0)) EXCEPT
         !.members[0].forced_off = fo,
         !.existing_assignments =
             [i \in 1 .. LongHorizon |->
                 Pin(0, i - 1, IF (i - 1) \in {LongHorizon - 1, LongHorizon - 9}
                               THEN "DAY" ELSE "OFF")]] :
        fo \in {<<LongHorizon - 1, LongHorizon - 9>>,
                <<LongHorizon - 9, LongHorizon - 1>>,
                <<LongHorizon - 2, LongHorizon - 9, LongHorizon - 1>>}}

Requests ==
    CoverageRequests \cup MinOffRequests \cup DayTargetRequests \cup PinRequests
        \cup LateEarlyRequests \cup RunRequests \cup TeamRequests
        \cup BareRequests \cup LongHorizonRequests

Init ==
    /\ data \in Requests
    /\ pc = "start"
    /\ cfg = <<>>
    /\ pinned_assignments = <<>>
    /\ fixed_requirements = <<>>
    /\ conflicts = <<>>
    /\ per_day_requirements = <<>>
    /\ desired_day_per_day = <<>>
    /\ model = {}
    /\ status = "none"
    /\ sol = <<>>
    /\ result = <<>>

Next ==
    \/ RaiseTypeError
    \/ Normalize
    \/ ReadExisting
    \/ ComputeRequirements
    \/ EmitConstraints
    \/ SolveOptimal
    \/ SolveFeasible
    \/ SolveInfeasible
    \/ SolveInvalid
    \/ SolveUnknown

Spec == Init /\ [][Next]_vars

----------------------------------------------------------------------------
(* Vocabulary of the properties *)

Built == pc = "built"
Done == pc = "done"
Solved == pc = "done" /\ status \in {"optimal", "feasible"}
Unsolved == pc = "done" /\ status \in {"infeasible", "invalid", "unknown"}

(* the emitted assignments list shows member u under code s on day d *)
Shown(u, d, s) == u \in result.assignments[d][s]
ShownCodes(u, d) == {s \in output_shift_codes : Shown(u, d, s)}

Reported == result.summary.constraint_conflicts
ReportedOfType(t) == {i \in 1 .. Len(Reported) : Reported[i].type = t}

Pinned == {c \in Cells : pinned_assignments[c] # NONE}
GenerationDays == {d \in DayIdx : ~is_carry_over(d)}
CarryOverDays == {d \in DayIdx : is_carry_over(d)}

----------------------------------------------------------------------------
(* C1: the constraint set handed to the solver is never unsatisfiable      *)
(* because of pinned facts: whenever the emitted constraints without the   *)
(* pinned equalities have a solution, the emitted constraints with them    *)
(* have one too, so the status is never infeasible on their account.       *)
C1_PinnedNeverInfeasible ==
    (Done /\ status = "infeasible") => Solutions(model \ PinnedCons) = {}

(* C2: with no existing assignments the built model always has a solution, *)
(* whatever the coverage targets, categories, horizon and minimum days off *)
C2_UnpinnedAlwaysSatisfiable ==
    (Built /\ data.existing_assignments = <<>>) => Solutions(model) # {}

(* C3 as stated: in every solved output each accepted pinned assignment    *)
(* is shown under exactly its code, on generation and carry-over days      *)
C3_PinnedShownEveryDay ==
    Solved => \A c \in Pinned : ShownCodes(c[1], c[2]) = {pinned_assignments[c]}

(* C3 amended: in every solved output each accepted pinned assignment on a *)
(* generation day is shown under exactly its code; on a carry-over day it  *)
(* is shown only when it survives the carry-over pruning (NIGHT_AFTER one  *)
(* day after, or OFF two days after, a solved NIGHT of the member) and is  *)
(* dropped otherwise, never replaced by another code.                      *)
C3_PinnedShownOnGenerationDays ==
    Solved =>
      \A c \in Pinned :
        LET u == c[1]
            d == c[2]
            code == pinned_assignments[c]
            kept == \/ code = "NIGHT_AFTER" /\ d > 0 /\ "NIGHT" \in sol.x[<<u, d - 1>>]
                    \/ code = "OFF" /\ d > 1 /\ "NIGHT" \in sol.x[<<u, d - 2>>]
        IN  /\ code \in sol.x[c]
            /\ d \in GenerationDays => ShownCodes(u, d) = {code}
            /\ d \in CarryOverDays =>
                 ShownCodes(u, d) = (IF kept THEN {code} ELSE {})

C3_Witness ==
    /\ Solved
    /\ \E c \in Pinned : c[2] \in GenerationDays /\ Shown(c[1], c[2], pinned_assignments[c])
    /\ \E c \in Pinned : c[2] \in CarryOverDays /\ ShownCodes(c[1], c[2]) = {}

(* C4: in every solved output each member appears under exactly one code   *)
(* on every generation day and under at most one on every carry-over day   *)
C4_OneCodePerDay ==
    Solved =>
      \A u \in MemberIdx :
        /\ \A d \in GenerationDays : Cardinality(ShownCodes(u, d)) = 1
        /\ \A d \in CarryOverDays : Cardinality(ShownCodes(u, d)) <= 1

C4_Witness ==
    /\ Solved
    /\ GenerationDays # {}
    /\ \E u \in MemberIdx, d \in CarryOverDays : Cardinality(ShownCodes(u, d)) = 1
    /\ \E u \in MemberIdx, d \in CarryOverDays : ShownCodes(u, d) = {}

(* recorded 'missing' amount of summary.shortages, 0 when no record *)
Missing(d, s) ==
    LET recs == {r \in result.summary.shortages : r.date = d /\ r.shift_code = s}
    IN  IF recs = {} THEN 0 ELSE (CHOOSE r \in recs : TRUE).missing

PinnedCount(d, s) == Cardinality({u \in MemberIdx : pinned_assignments[<<u, d>>] = s})
PinnedNights(u) == Cardinality({d \in DayIdx : pinned_assignments[<<u, d>>] = "NIGHT"})

(* the requirement as C5 words it *)
ClaimedRequirement(d, s) ==
    IF s = "DAY" /\ d \in GenerationDays THEN desired_day_per_day[d]
    ELSE Max2(data.coverage[s], PinnedCount(d, s))

(* C5 as stated: on every day of the horizon, members shown under a work   *)
(* code plus the recorded missing amount equal the requirement             *)
C5_CoverageBalanceEveryDay ==
    Solved =>
      \A d \in DayIdx, s \in WORK_SHIFT_CODES :
        Cardinality(result.assignments[d][s]) + Missing(d, s) = ClaimedRequirement(d, s)

(* C5 amended: the equation holds on every generation day; on a carry-over *)
(* day the requirement is the number of pinned assignments of the code     *)
(* alone, the solved indicators meet it exactly with nothing missing, and  *)
(* no work code is shown.                                                  *)
C5_CoverageBalanceOnGenerationDays ==
    Solved =>
      \A d \in DayIdx, s \in WORK_SHIFT_CODES :
        /\ d \in GenerationDays =>
             Cardinality(result.assignments[d][s]) + Missing(d, s)
                 = ClaimedRequirement(d, s)
        /\ d \in CarryOverDays =>
             /\ Count(sol.x, d, s) = PinnedCount(d, s)
             /\ Missing(d, s) = 0
             /\ result.assignments[d][s] = {}

C5_Witness ==
    /\ Solved
    /\ \E d \in GenerationDays, s \in WORK_SHIFT_CODES :
         Missing(d, s) > 0 /\ result.assignments[d][s] # {}

NonNightMembers == {u \in MemberIdx : ~data.members[u].can_night_shift}

HasConflict(type, u, d) ==
    \E i \in ReportedOfType(type) : Reported[i].member_id = u /\ Reported[i].date = d

(* C6 as stated: in every solved output no member without night           *)
(* eligibility is shown under NIGHT or NIGHT_AFTER on any day              *)
C6_NoNightForIneligible ==
    Solved =>
      \A u \in NonNightMembers, d \in DayIdx :
        ~Shown(u, d, "NIGHT") /\ ~Shown(u, d, "NIGHT_AFTER")

(* C6 amended: in every solved output a member without night eligibility   *)
(* is shown under NIGHT_AFTER on no day, and under NIGHT only on a day     *)
(* where an existing assignment pins the member to NIGHT, for which a      *)
(* night_eligibility_conflict is recorded.                                 *)
C6_NightOnlyWhenPinned ==
    Solved =>
      \A u \in NonNightMembers, d \in DayIdx :
        /\ ~Shown(u, d, "NIGHT_AFTER")
        /\ "NIGHT_AFTER" \notin sol.x[<<u, d>>]
        /\ ("NIGHT" \in sol.x[<<u, d>>]) =>
             /\ pinned_assignments[<<u, d>>] = "NIGHT"
             /\ HasConflict("night_eligibility_conflict", u, d)

C6_Witness ==
    /\ Solved
    /\ \E u \in NonNightMembers, d \in DayIdx :
         /\ Shown(u, d, "NIGHT")
         /\ \E e \in DayIdx : e # d /\ pinned_assignments[<<u, e>>] = NONE
                                /\ per_day_requirements[e]["NIGHT"] > 0

(* C7 as stated: NIGHT_AFTER is shown on day d, the first day included,    *)
(* only after a NIGHT shown on day d-1 or with a recorded                  *)
(* night_after_predecessor_conflict for that member and day                *)
C7_NightAfterNeedsNight ==
    Solved =>
      \A u \in MemberIdx, d \in DayIdx :
        Shown(u, d, "NIGHT_AFTER") =>
          \/ d > 0 /\ Shown(u, d - 1, "NIGHT")
          \/ HasConflict("night_after_predecessor_conflict", u, d)

(* C7 amended: on every day d after the first, NIGHT_AFTER is shown (or    *)
(* solved) for a member only if the member's NIGHT indicator is solved     *)
(* true on day d-1, which the output shows when d-1 is a generation day,   *)
(* or a night_after_predecessor_conflict was recorded for that member and  *)
(* day d; the first day of the horizon is not constrained.                 *)
C7_NightAfterNeedsNightAfterFirstDay ==
    Solved =>
      \A u \in MemberIdx, d \in DayIdx \ {0} :
        (Shown(u, d, "NIGHT_AFTER") \/ "NIGHT_AFTER" \in sol.x[<<u, d>>]) =>
          \/ /\ "NIGHT" \in sol.x[<<u, d - 1>>]
             /\ (d - 1) \in GenerationDays => Shown(u, d - 1, "NIGHT")
          \/ HasConflict("night_after_predecessor_conflict", u, d)

C7_Witness ==
    /\ Solved
    /\ \E u \in MemberIdx, d \in DayIdx \ {0} :
         /\ Shown(u, d, "NIGHT_AFTER")
         /\ Shown(u, d - 1, "NIGHT")
         /\ pinned_assignments[<<u, d>>] = NONE
    /\ \E u \in MemberIdx, d \in DayIdx \ {0} : "NIGHT_AFTER" \notin sol.x[<<u, d>>]

C7_ConflictWitness ==
    /\ Solved
    /\ \E u \in MemberIdx, d \in DayIdx \ {0} :
         /\ Shown(u, d, "NIGHT_AFTER")
         /\ ~Shown(u, d - 1, "NIGHT")
         /\ HasConflict("night_after_predecessor_conflict", u, d)

(* a pinned code that contradicts the rest sequence of a NIGHT on day d *)
NoConflictingPin(u, d) ==
    /\ (d + 1) \in DayIdx => pinned_assignments[<<u, d + 1>>] \in {NONE, "NIGHT_AFTER"}
    /\ (d + 2) \in DayIdx => pinned_assignments[<<u, d + 2>>] \in {NONE, "OFF"}

(* C8: with enforce_night_after_rest, a member shown under NIGHT on day d  *)
(* whose days d+1 and d+2 carry no conflicting pinned code is shown under  *)
(* NIGHT_AFTER on d+1 and OFF on d+2, for each of those days in the horizon *)
C8_NightRestSequence ==
    (Solved /\ cfg.enforce_night_rest) =>
      \A u \in MemberIdx, d \in DayIdx :
        (("NIGHT" \in sol.x[<<u, d>>] \/ Shown(u, d, "NIGHT")) /\ NoConflictingPin(u, d)) =>
          /\ (d + 1) \in DayIdx => Shown(u, d + 1, "NIGHT_AFTER")
          /\ (d + 2) \in DayIdx => Shown(u, d + 2, "OFF")

C8_Witness ==
    /\ Solved /\ cfg.enforce_night_rest
    /\ \E u \in MemberIdx, d \in DayIdx :
         /\ Shown(u, d, "NIGHT") /\ pinned_assignments[<<u, d>>] = NONE
         /\ (d + 2) \in DayIdx
         /\ Shown(u, d + 1, "NIGHT_AFTER") /\ Shown(u, d + 2, "OFF")

(* C9: in every solved output a member's NIGHT days number at most         *)
(* max_nights_per_member, or a night_quota_conflict of that member records *)
(* the pinned NIGHT count as nights_locked and the maximum as max_allowed  *)
C9_NightQuota ==
    Solved =>
      \A u \in MemberIdx :
        \/ /\ result.summary.nights[u] <= cfg.max_nights
           /\ Cardinality({d \in DayIdx : Shown(u, d, "NIGHT")}) <= cfg.max_nights
        \/ \E i \in ReportedOfType("night_quota_conflict") :
             /\ Reported[i].member_id = u
             /\ Reported[i].n1 = PinnedNights(u)
             /\ Reported[i].n2 = cfg.max_nights

C9_Witness ==
    /\ Solved
    /\ \E u \in MemberIdx :
         /\ result.summary.nights[u] = cfg.max_nights
         /\ cfg.max_nights > 0
         /\ \E d \in DayIdx : /\ pinned_assignments[<<u, d>>] = NONE
                              /\ "NIGHT" \notin sol.x[<<u, d>>]
                              /\ per_day_requirements[d]["NIGHT"] > 0

C9_ConflictWitness ==
    /\ Solved
    /\ \E u \in MemberIdx : result.summary.nights[u] > cfg.max_nights

(* C10 as stated: an unsolved status yields an empty assignments list and  *)
(* a summary with the status label and every other part empty, the         *)
(* constraint_conflicts list included                                      *)
C10_UnsolvedAllEmpty ==
    Unsolved =>
      /\ result.assignments = <<>>
      /\ result.summary.status = status
      /\ result.summary.work_days = <<>>
      /\ result.summary.off_days = <<>>
      /\ result.summary.nights = <<>>
      /\ result.summary.shortages = {}
      /\ result.summary.day_capacity_shortfalls = {}
      /\ result.summary.constraint_conflicts = <<>>

(* What the unsolved result does carry: an empty assignments list and a    *)
(* summary with the status label, empty work_days, off_days, nights,       *)
(* shortages and day_capacity_shortfalls, and a constraint_conflicts list  *)
(* holding exactly the conflicts detected before the solve (line 779).     *)
UnsolvedKeepsConflicts ==
    Unsolved =>
      /\ result.assignments = <<>>
      /\ result.summary.status = status
      /\ result.summary.work_days = <<>>
      /\ result.summary.off_days = <<>>
      /\ result.summary.nights = <<>>
      /\ result.summary.shortages = {}
      /\ result.summary.day_capacity_shortfalls = {}
      /\ result.summary.constraint_conflicts = conflicts
      /\ ReportedOfType("off_requirement_shortfall") = {}
      /\ \A u \in MemberIdx, d \in DayIdx :
           (~data.members[u].can_night_shift /\ pinned_assignments[<<u, d>>] = "NIGHT")
             => HasConflict("night_eligibility_conflict", u, d)

UnsolvedWithConflicts ==
    /\ Unsolved
    /\ status = "infeasible"
    /\ result.summary.constraint_conflicts # <<>>

UnsolvedInvalid ==
    /\ Unsolved
    /\ status = "invalid"
    /\ result.summary.constraint_conflicts # <<>>

----------------------------------------------------------------------------
(* Minimum days off, lines 712-724 and 859-872 *)

RequiredOff(u) == member_off_requirements(u)
MembersWithMinOff == {u \in MemberIdx : RequiredOff(u) > 0}

OffShortfallRecords(u) ==
    {i \in ReportedOfType("off_requirement_shortfall") : Reported[i].member_id = u}

(* C11 as stated: in every solved output, optimal or feasible, a member    *)
(* with a positive minimum R either has off_days >= R and no               *)
(* off_requirement_shortfall, or has one whose shortfall is exactly        *)
(* R - off_days and whose required is R                                    *)
C11_ExactShortfall ==
    Solved =>
      \A u \in MembersWithMinOff :
        \/ /\ result.summary.off_days[u] >= RequiredOff(u)
           /\ OffShortfallRecords(u) = {}
        \/ \E i \in OffShortfallRecords(u) :
             /\ Reported[i].n1 = RequiredOff(u) - result.summary.off_days[u]
             /\ Reported[i].n2 = RequiredOff(u)

(* C11 amended: the statement holds as worded when the status is optimal;  *)
(* in every solved output the member has at most one                       *)
(* off_requirement_shortfall, its required is R and its shortfall is the   *)
(* solved slack, at least 1 and at least R - off_days, and without a       *)
(* record off_days >= R.                                                   *)
C11_ShortfallCoversGap ==
    Solved =>
      \A u \in MembersWithMinOff :
        /\ Cardinality(OffShortfallRecords(u)) <= 1
        /\ OffShortfallRecords(u) = {} =>
             result.summary.off_days[u] >= RequiredOff(u)
        /\ \A i \in OffShortfallRecords(u) :
             /\ Reported[i].n2 = RequiredOff(u)
             /\ Reported[i].n1 = sol.off_slack[u]
             /\ Reported[i].n1 >= 1
             /\ Reported[i].n1 >= RequiredOff(u) - result.summary.off_days[u]
             /\ status = "optimal" =>
                  Reported[i].n1 = RequiredOff(u) - result.summary.off_days[u]

C11_Witness ==
    /\ Solved /\ status = "optimal"
    /\ \E u \in MembersWithMinOff :
         /\ result.summary.off_days[u] > 0
         /\ \E i \in OffShortfallRecords(u) :
              Reported[i].n1 = RequiredOff(u) - result.summary.off_days[u]

----------------------------------------------------------------------------
(* Pinned runs of work days, lines 517-550 *)

Emitted == pc \in {"built", "done"}

PinnedWork(u, d) == d \in DayIdx /\ pinned_assignments[<<u, d>>] \in WORK_SHIFT_CODES

(* the maximal runs of consecutive days pinned to work codes, <<first, last>> *)
PinnedRuns(u) ==
    {r \in DayIdx \X DayIdx :
        /\ r[1] <= r[2]
        /\ \A d \in r[1] .. r[2] : PinnedWork(u, d)
        /\ ~PinnedWork(u, r[1] - 1)
        /\ ~PinnedWork(u, r[2] + 1)}

LongRuns(u) ==
    {r \in PinnedRuns(u) :
        r[2] - r[1] + 1 > Opt(cfg.max_consecutive_workdays, 0)}

RunConflicts(u) ==
    {i \in 1 .. Len(conflicts) :
        /\ conflicts[i].type = "max_consecutive_workdays_conflict"
        /\ conflicts[i].member_id = u}

(* C12 as stated: with a cap set, every pinned run of more than cap work   *)
(* days has a max_consecutive_workdays_conflict naming the first day of    *)
(* the run as start_date, its last day as end_date and the cap as limit    *)
C12_RunEndsRecorded ==
    (Emitted /\ cfg.max_consecutive_workdays # {}) =>
      \A u \in MemberIdx :
        \A r \in LongRuns(u) :
          \E i \in RunConflicts(u) :
            /\ conflicts[i].date = r[1]
            /\ conflicts[i].date2 = r[2]
            /\ conflicts[i].n1 = Opt(cfg.max_consecutive_workdays, 0)

(* C12 amended: with a cap set, a member with a pinned run of more than    *)
(* cap work days has exactly one max_consecutive_workdays_conflict: its    *)
(* start_date is the first day of the member's earliest such run, its      *)
(* end_date is the day that run first exceeds the cap (start + cap, the    *)
(* last day of the run only when the run has cap + 1 days) and its limit   *)
(* is cap; a member without such a run has none.                           *)
C12_FirstViolationRecorded ==
    (Emitted /\ cfg.max_consecutive_workdays # {}) =>
      \A u \in MemberIdx :
        LET cap == Opt(cfg.max_consecutive_workdays, 0)
        IN  IF LongRuns(u) = {} THEN RunConflicts(u) = {}
            ELSE LET r == CHOOSE r \in LongRuns(u) :
                              \A o \in LongRuns(u) : r[1] <= o[1]
                 IN  /\ Cardinality(RunConflicts(u)) = 1
                     /\ \A i \in RunConflicts(u) :
                          /\ conflicts[i].date = r[1]
                          /\ conflicts[i].date2 = r[1] + cap
                          /\ conflicts[i].date2 <= r[2]
                          /\ conflicts[i].n1 = cap

C12_Witness ==
    /\ Emitted /\ cfg.max_consecutive_workdays # {}
    /\ \E u \in MemberIdx :
         \E r \in LongRuns(u) :
           /\ r[1] > 0
           /\ r[2] - r[1] = Opt(cfg.max_consecutive_workdays, 0)
           /\ \E i \in RunConflicts(u) :
                conflicts[i].date = r[1] /\ conflicts[i].date2 = r[2]

----------------------------------------------------------------------------
(* Existing assignments in input order, lines 327-372 *)

Entries == data.existing_assignments

EntryCode(e) == ShiftCodeName(Upper(e.shift_code))

ValidEntry(e) ==
    e.user_id \in MemberIdx /\ e.date \in DayIdx /\ EntryCode(e) \in SHIFT_CODES

(* the pinned map, pinned counts and conflicts after the first k entries *)
AfterEntries(k) ==
    ExistingFold([pinned |-> EmptyPinned, fixed |-> EmptyFixed, conflicts |-> <<>>],
                 SubSeq(Entries, 1, k))

(* the conflicts entry k appended *)
AddedBy(k) ==
    SubSeq(AfterEntries(k).conflicts, Len(AfterEntries(k - 1).conflicts) + 1,
           Len(AfterEntries(k).conflicts))

OfType(seq, t) == {i \in 1 .. Len(seq) : seq[i].type = t}

OutsideAllowList(e) ==
    /\ data.members[e.user_id].allowed_shift_codes # {}
    /\ EntryCode(e) \notin Opt(data.members[e.user_id].allowed_shift_codes, {})

(* the first valid entry of the pair of entry k *)
FirstFor(k) ==
    CHOOSE j \in 1 .. k :
        /\ ValidEntry(Entries[j])
        /\ Entries[j].user_id = Entries[k].user_id
        /\ Entries[j].date = Entries[k].date
        /\ \A i \in 1 .. (j - 1) :
             ~(/\ ValidEntry(Entries[i])
               /\ Entries[i].user_id = Entries[k].user_id
               /\ Entries[i].date = Entries[k].date)

(* what C13 says of entry k, apart from a later entry of the same code *)
PinsFirstCode(k) ==
    LET e == Entries[k]
        key == <<e.user_id, e.date>>
        before == AfterEntries(k - 1)
        after == AfterEntries(k)
        first == EntryCode(Entries[FirstFor(k)])
    IN  /\ after.pinned[key] = first
        /\ pinned_assignments[key] = first
        /\ SubSeq(after.conflicts, 1, Len(before.conflicts)) = before.conflicts
        /\ FirstFor(k) = k =>
             /\ before.pinned[key] = NONE
             /\ after.pinned = [before.pinned EXCEPT ![key] = EntryCode(e)]
             /\ OfType(AddedBy(k), "existing_assignment_conflict") = {}
        /\ (FirstFor(k) < k /\ EntryCode(e) # first) =>
             /\ after.pinned = before.pinned
             /\ after.fixed = before.fixed
             /\ Cardinality(OfType(AddedBy(k), "existing_assignment_conflict")) = 1
             /\ \A i \in OfType(AddedBy(k), "existing_assignment_conflict") :
                  /\ AddedBy(k)[i].member_id = e.user_id
                  /\ AddedBy(k)[i].date = e.date
                  /\ Len(AddedBy(k)[i].codes) = 2
                  /\ {AddedBy(k)[i].codes[1], AddedBy(k)[i].codes[2]}
                         = {first, EntryCode(e)}
                  /\ CodeRank(AddedBy(k)[i].codes[1]) < CodeRank(AddedBy(k)[i].codes[2])

SameCodeAgain(k) ==
    FirstFor(k) < k /\ EntryCode(Entries[k]) = EntryCode(Entries[FirstFor(k)])

ReadDone == pc = "pinned"

(* C13 as stated: the first valid code of a pair is pinned and never       *)
(* replaced, a later different code appends one existing_assignment_       *)
(* conflict with both codes sorted and changes neither the pinned map nor  *)
(* the pinned counts, and a later entry of the same code adds nothing      *)
C13_LaterSameCodeAddsNothing ==
    ReadDone =>
      /\ conflicts = AfterEntries(Len(Entries)).conflicts
      /\ \A k \in 1 .. Len(Entries) :
           ValidEntry(Entries[k]) =>
             /\ PinsFirstCode(k)
             /\ SameCodeAgain(k) => AfterEntries(k) = AfterEntries(k - 1)

(* C13 amended: as stated, except that a later entry of the same code adds *)
(* no pin, no pinned count and no existing_assignment_conflict; every      *)
(* valid entry, first or later, of the same or of a different code, whose  *)
(* code is outside the member's allow-list appends one                     *)
(* allowed_shift_conflict, and nothing else is appended.                   *)
C13_FirstCodeStaysPinned ==
    ReadDone =>
      /\ conflicts = AfterEntries(Len(Entries)).conflicts
      /\ fixed_requirements = AfterEntries(Len(Entries)).fixed
      /\ \A k \in 1 .. Len(Entries) :
           IF ValidEntry(Entries[k])
           THEN /\ PinsFirstCode(k)
                /\ SameCodeAgain(k) =>
                     /\ AfterEntries(k).pinned = AfterEntries(k - 1).pinned
                     /\ AfterEntries(k).fixed = AfterEntries(k - 1).fixed
                     /\ OfType(AddedBy(k), "existing_assignment_conflict") = {}
                /\ Cardinality(OfType(AddedBy(k), "allowed_shift_conflict"))
                       = (IF OutsideAllowList(Entries[k]) THEN 1 ELSE 0)
                /\ \A i \in 1 .. Len(AddedBy(k)) :
                     AddedBy(k)[i].type \in {"allowed_shift_conflict",
                                             "existing_assignment_conflict"}
           ELSE AfterEntries(k) = AfterEntries(k - 1)

C13_Witness ==
    /\ ReadDone
    /\ Len(Entries) = 2
    /\ ValidEntry(Entries[1]) /\ ValidEntry(Entries[2])
    /\ Entries[1].user_id = Entries[2].user_id /\ Entries[1].date = Entries[2].date
    /\ CodeRank(EntryCode(Entries[2])) < CodeRank(EntryCode(Entries[1]))
    /\ Cardinality(OfType(conflicts, "existing_assignment_conflict")) = 1
    /\ pinned_assignments[<<Entries[1].user_id, Entries[1].date>>] = EntryCode(Entries[1])

----------------------------------------------------------------------------
(* Weights of the objective, lines 454-469 and 742-754 *)

(* units of unmet hard coverage: staffing below the hard requirement *)
HardShortage(x, d, s) == Max2(0, base_requirement(d, s) - Count(x, d, s))

(* units of day-target shortfall: DAY staffed at or above the hard         *)
(* requirement but below the target                                        *)
TargetShortfall(x, d) ==
    Max2(0, desired_day_per_day[d] - Max2(Count(x, d, "DAY"), base_requirement(d, "DAY")))

HardUnits(x) ==
    SumTo([d \in DayIdx |->
              HardShortage(x, d, "EARLY") + HardShortage(x, d, "DAY")
                  + HardShortage(x, d, "LATE") + HardShortage(x, d, "NIGHT")],
          num_days)

TargetUnits(x) == SumTo([d \in DayIdx |-> TargetShortfall(x, d)], num_days)

BalanceCost(s) ==
    IF cfg.balance_workload
    THEN work_balance_weight
             * SumTo([u \in MemberIdx |-> Abs(work_count(s.x, u) - target_work)],
                     num_members)
         + off_balance_weight
             * SumTo([u \in MemberIdx |-> Abs(off_count(s.x, u) - target_off)],
                     num_members)
    ELSE 0

(* what the objective charges for the day-target shortfall of a solution:  *)
(* its value less the charges for hard coverage, days off and balance      *)
ChargedForTarget(s) ==
    Objective(s) - coverage_penalty * HardUnits(s.x)
        - off_requirement_penalty * SumTo(s.off_slack, num_members) - BalanceCost(s)

(* C14: a unit of unmet hard coverage costs more than a unit of day-target *)
(* shortfall, which costs more than a unit of days-off shortfall, which    *)
(* costs more than a unit of balance deviation; the day-target shortfall   *)
(* is charged below the coverage weight                                    *)
C14_DayTargetBelowCoverage ==
    Solved =>
      /\ off_requirement_penalty > work_balance_weight
      /\ off_requirement_penalty > off_balance_weight
      /\ ChargedForTarget(sol) > off_requirement_penalty * TargetUnits(sol.x)
             \/ TargetUnits(sol.x) = 0
      /\ ChargedForTarget(sol) < coverage_penalty * TargetUnits(sol.x)
             \/ TargetUnits(sol.x) = 0

(* Consequence of the ordering at these sizes (the lower weights cannot    *)
(* add up to one unit of coverage): an optimal solution leaves no more     *)
(* hard coverage unmet than any other solution of the model.               *)
C14_HardCoverageFirst ==
    (Solved /\ status = "optimal") =>
      \A s \in Solutions(model) : HardUnits(sol.x) <= HardUnits(s.x)

----------------------------------------------------------------------------
(* Resolution of the minimum days off, lines 239-265 *)

Normalized == pc \notin {"start", "raised"}

(* C15: for every constraints payload and horizon length N the resolved    *)
(* minimum days off of full_time, part_time and contract lies in [0, N],   *)
(* an unset value resolving along the chain full-time -> general,          *)
(* part-time -> general if given else 10, contract -> part-time            *)
C15_MinOffWithinHorizon ==
    Normalized =>
      /\ \A t \in {"full_time", "part_time", "contract"} :
           cfg.min_off_by_type[t] \in 0 .. num_days
      /\ data.min_off_days_full_time = {} =>
           cfg.min_off_by_type["full_time"] = cfg.default_min_off
      /\ data.min_off_days_part_time = {} =>
           cfg.min_off_by_type["part_time"]
               = (IF data.min_off_days # {} THEN cfg.default_min_off
                  ELSE part_time_default_min_off)
      /\ data.min_off_days_contract = {} =>
           cfg.min_off_by_type["contract"] = cfg.min_off_by_type["part_time"]

----------------------------------------------------------------------------
(* Summary counts, lines 726-728 and 874-890 *)

WorkCodeDays(u) == {d \in DayIdx : sol.x[<<u, d>>] \cap WORK_SHIFT_CODES # {}}
OffDays(u) == {d \in DayIdx : "OFF" \in sol.x[<<u, d>>]}
NightDays(u) == {d \in DayIdx : "NIGHT" \in sol.x[<<u, d>>]}

(* C16: in every solved output summary.work_days is the number of days     *)
(* whose solved indicator is true for EARLY, DAY, LATE or NIGHT, off_days  *)
(* the number of OFF days and nights the number of NIGHT days; NIGHT_AFTER *)
(* days and unassigned carry-over days are not counted as work days        *)
C16_SummaryCounts ==
    Solved =>
      \A u \in MemberIdx :
        /\ result.summary.work_days[u] = Cardinality(WorkCodeDays(u))
        /\ result.summary.off_days[u] = Cardinality(OffDays(u))
        /\ result.summary.nights[u] = Cardinality(NightDays(u))

(* The counts the summary does carry: off_days and nights as stated, and   *)
(* work_days as every day that is not an OFF day.                          *)
C16_WorkDaysAreNonOffDays ==
    Solved =>
      \A u \in MemberIdx :
        /\ result.summary.work_days[u] = num_days - Cardinality(OffDays(u))
        /\ result.summary.off_days[u] = Cardinality(OffDays(u))
        /\ result.summary.nights[u] = Cardinality(NightDays(u))

----------------------------------------------------------------------------
(* Pruning of carry-over days, lines 788-833 *)

SolvedCode(u, d, s) == d \in DayIdx /\ s \in sol.x[<<u, d>>]
ShownOn(u, d, s) == d \in DayIdx /\ Shown(u, d, s)

(* C17 as stated: on a carry-over day d only NIGHT_AFTER of members shown  *)
(* on NIGHT on day d-1 and OFF of members shown on NIGHT on day d-2 are    *)
(* emitted, so a NIGHT dropped from a carry-over day justifies neither     *)
C17_JustifiedByShownNight ==
    Solved =>
      \A d \in CarryOverDays, u \in MemberIdx :
        /\ ShownCodes(u, d) \subseteq {"NIGHT_AFTER", "OFF"}
        /\ Shown(u, d, "NIGHT_AFTER") => ShownOn(u, d - 1, "NIGHT")
        /\ Shown(u, d, "OFF") => ShownOn(u, d - 2, "NIGHT")

(* C17 amended: on a carry-over day d a member is emitted under            *)
(* NIGHT_AFTER exactly when that indicator is solved true and the member's *)
(* NIGHT indicator is solved true on day d-1, under OFF exactly when that  *)
(* indicator is solved true and NIGHT is solved true on day d-2, and under *)
(* no other code.  A solved NIGHT is emitted when its day is a generation  *)
(* day; on a carry-over day it is a pinned NIGHT, is dropped from the      *)
(* output and still justifies the later NIGHT_AFTER and OFF.               *)
C17_JustifiedBySolvedNight ==
    Solved =>
      \A d \in CarryOverDays, u \in MemberIdx :
        /\ ShownCodes(u, d) \subseteq {"NIGHT_AFTER", "OFF"}
        /\ Shown(u, d, "NIGHT_AFTER") <=>
             (SolvedCode(u, d, "NIGHT_AFTER") /\ SolvedCode(u, d - 1, "NIGHT"))
        /\ Shown(u, d, "OFF") <=>
             (SolvedCode(u, d, "OFF") /\ SolvedCode(u, d - 2, "NIGHT"))
        /\ SolvedCode(u, d, "NIGHT") =>
             pinned_assignments[<<u, d>>] = "NIGHT" /\ ~Shown(u, d, "NIGHT")
        /\ \A e \in GenerationDays : SolvedCode(u, e, "NIGHT") <=> Shown(u, e, "NIGHT")

C17_Witness ==
    /\ Solved
    /\ \E d \in CarryOverDays, u \in MemberIdx :
         /\ Shown(u, d, "NIGHT_AFTER")
         /\ ShownOn(u, d - 1, "NIGHT")
         /\ \E v \in MemberIdx : sol.x[<<v, d>>] # {} /\ ShownCodes(v, d) = {}

----------------------------------------------------------------------------
(* The DAY target, lines 286-294 and 413-452 *)

RequirementsDone == pc \in {"required", "built", "done"}

HardRequirement(d, s) == Max2(data.coverage[s], PinnedCount(d, s))

OtherRequirements(d) ==
    HardRequirement(d, "EARLY") + HardRequirement(d, "LATE") + HardRequirement(d, "NIGHT")

AllowListHasDay(u) ==
    \/ data.members[u].allowed_shift_codes = {}
    \/ "DAY" \in Opt(data.members[u].allowed_shift_codes, {})

(* members who can legally work DAY on day d *)
CanWorkDay(d) ==
    {u \in MemberIdx :
        \/ pinned_assignments[<<u, d>>] = "DAY"
        \/ /\ pinned_assignments[<<u, d>>] = NONE
           /\ AllowListHasDay(u)
           /\ d \notin forced_off_days_by_member(u)}

(* the same, forced days off not taken into account *)
DayAllowedUnpinned(d) ==
    {u \in MemberIdx :
        \/ pinned_assignments[<<u, d>>] = "DAY"
        \/ pinned_assignments[<<u, d>>] = NONE /\ AllowListHasDay(u)}

(* C18: on every generation day the DAY target T is at least the hard DAY  *)
(* requirement H and at most the larger of H and each of the desired day   *)
(* headcount, the member count less the other codes' requirements, and the *)
(* number of members who can legally work DAY that day                     *)
C18_DayTargetBounds ==
    RequirementsDone =>
      \A d \in GenerationDays :
        LET T == desired_day_per_day[d]
            H == HardRequirement(d, "DAY")
        IN  /\ T >= H
            /\ T = per_day_requirements[d]["DAY"]
            /\ T <= Max2(H, cfg.desired_day_headcount)
            /\ T <= Max2(H, num_members - OtherRequirements(d))
            /\ T <= Max2(H, Cardinality(CanWorkDay(d)))

(* The bounds the target does keep: the capacity bound counts every        *)
(* unpinned member whose allow-list includes DAY, forced off or not.       *)
C18_DayTargetBoundsIgnoringDaysOff ==
    RequirementsDone =>
      \A d \in GenerationDays :
        LET T == desired_day_per_day[d]
            H == HardRequirement(d, "DAY")
        IN  /\ T >= H
            /\ T = per_day_requirements[d]["DAY"]
            /\ T <= Max2(H, cfg.desired_day_headcount)
            /\ T <= Max2(H, num_members - OtherRequirements(d))
            /\ T <= Max2(H, Cardinality(DayAllowedUnpinned(d)))

====
